---- MODULE Spec2Model ----
(***************************************************************************)
(* Model of the book registry (app/storage.py), of the retrieval pipeline  *)
(* (app/ai.py), of the chat store (app/main.py) and of the catalogue       *)
(* (app/catalog/router.py, store.py, openlibrary_service.py) of LLMBOOK.   *)
(*                                                                         *)
(* Representation of Python values                                         *)
(*   Optional[T]   None is <<>>, a value v is <<v>>.                       *)
(*   short str     (titles, hints) a sequence of one-character strings.    *)
(*   long str      (section texts, questions) its run-length encoding: a   *)
(*                 sequence of runs <<character, count>>, count >= 1,      *)
(*                 adjacent runs of different characters.                  *)
(*   dict of SECTIONS  a record; a reference to it is its position in     *)
(*                 SECTIONS (the list is append-only).                     *)
(*   numpy vector  a pair of integers.                                     *)
(*   float cosine  the pair [num, den] standing for num / sqrt(den).       *)
(*   dict          a function whose domain is the set of keys.             *)
(*   list object   shared lists (a cache entry handed to a caller) are the *)
(*                 value of the variable that holds them: a change made    *)
(*                 through one reference is a change of that variable.     *)
(***************************************************************************)
EXTENDS Integers, Sequences, FiniteSets, TLC

VARIABLES
    BOOKS,            \* storage.BOOKS
    SECTIONS,         \* storage.SECTIONS
    next_book_id,     \* storage._next_book_id
    next_section_id,  \* storage._next_section_id
    encode_calls,     \* number of embedder.encode invocations so far
    assigned,         \* assigned[i]: how often SECTIONS[i]["embedding"] was assigned
    calls,            \* number of operations performed (sequential runs)
    last,             \* the last operation of a sequential run: request and result
                      \* (nth: the successful calls in a row it completes)
    thr,              \* the request threads of a concurrent run (seq: the
                      \* position of the request among those for its book)
    adders,           \* the add_book calls of a concurrent run
    fav_file,         \* router.FAV_FILE: the favourites file on disk
    fav_lock,         \* router._fav_lock: the request that holds it, if any
    fav_req,          \* the favourites requests of a concurrent run
    fav_log,          \* per user and book: the last favourites operation on it
    CHAT_STORE,       \* main.CHAT_STORE
    search_cache,     \* openlibrary_service._search_cache
    work_cache,       \* openlibrary_service._work_cache
    author_cache,     \* openlibrary_service._author_cache
    http_requests,    \* number of HTTP requests sent to Open Library so far
    cat_log           \* per search key and work id: what the first call returned

favourites == <<fav_file, fav_lock, fav_req, fav_log>>

catalogue == <<search_cache, work_cache, author_cache, http_requests, cat_log>>

site == <<adders, favourites, CHAT_STORE, catalogue>>

vars == <<BOOKS, SECTIONS, next_book_id, next_section_id, encode_calls, assigned,
          calls, last, thr, site>>

registry == <<BOOKS, SECTIONS, next_book_id, next_section_id>>

----------------------------------------------------------------------------
(* Bounds of the model.                                                    *)

MaxBooks == 2
MaxSections == 2
MaxCalls == 5
MaxRankSections == 3
MaxRankCalls == 3
MaxResolveCalls == 4
MaxPromptSections == 3
MaxPromptCalls == 4
NumProcs == 2
NumAdders == 2
MaxAddSections == 2
NumFavRequests == 2
MaxFavCalls == 3
MaxChatCalls == 4
MaxCatalogCalls == 4

(* Program constants.                                                      *)

MaxTotalLen == 20000
DefaultTopK == 3
MaxSectionChars == 600

----------------------------------------------------------------------------
(* Python values.                                                          *)

None == <<>>

Some(v) == <<v>>

IsNone(o) == o = <<>>

Get(o) == o[1]

RECURSIVE SumSeq(_)
SumSeq(s) == IF s = <<>> THEN 0 ELSE Head(s) + SumSeq(Tail(s))

(* The positions 1..Len(s) as a list.                                      *)
Positions(s) == [i \in 1..Len(s) |-> i]

Max2(a, b) == IF a >= b THEN a ELSE b

Min2(a, b) == IF a <= b THEN a ELSE b

(* len(s) of a long str.                                                   *)
StrLen(text) == SumSeq([i \in 1..Len(text) |-> text[i][2]])

(* A long str of n copies of character ch.                                 *)
Rep(ch, n) == IF n = 0 THEN <<>> ELSE << <<ch, n>> >>

(* s[i - 1] of a long str (i counts from 1).                               *)
RECURSIVE CharAt(_, _)
CharAt(text, i) ==
    IF i <= Head(text)[2] THEN Head(text)[1]
    ELSE CharAt(Tail(text), i - Head(text)[2])

(* s[:n] of a long str, n >= 0.                                            *)
RECURSIVE Take(_, _)
Take(text, n) ==
    IF n <= 0 \/ text = <<>> THEN <<>>
    ELSE IF Head(text)[2] >= n THEN << <<Head(text)[1], n>> >>
    ELSE <<Head(text)>> \o Take(Tail(text), n - Head(text)[2])

(* a + b of two long str: the runs that meet are merged when they are of   *)
(* one character.                                                          *)
Concat(a, b) ==
    IF a = <<>> THEN b
    ELSE IF b = <<>> THEN a
    ELSE IF a[Len(a)][1] = Head(b)[1]
    THEN SubSeq(a, 1, Len(a) - 1)
            \o << <<Head(b)[1], a[Len(a)][2] + Head(b)[2]>> >> \o Tail(b)
    ELSE a \o b

(* sep.join(parts)                                                         *)
RECURSIVE JoinFrom(_, _, _)
JoinFrom(acc, sep, parts) ==
    IF parts = <<>> THEN acc
    ELSE JoinFrom(Concat(Concat(acc, sep), Head(parts)), sep, Tail(parts))

(* str.lower() of a short str, on the characters the model uses.           *)
LowerChar(c) ==
    CASE c = "D" -> "d"
      [] c = "F" -> "f"
      [] c = "U" -> "u"
      [] c = "N" -> "n"
      [] c = "A" -> "a"
      [] c = "B" -> "b"
      [] OTHER -> c

Lower(s) == [i \in 1..Len(s) |-> LowerChar(s[i])]

(* `a in b` of two short str.                                              *)
Contains(b, a) ==
    \E off \in 0..(Len(b) - Len(a)) :
        \A i \in 1..Len(a) : b[off + i] = a[i]

----------------------------------------------------------------------------
(* The embedding model: a deterministic function of the text.             *)

CharVec(c) ==
    CASE c = "a" -> <<1, 0>>
      [] c = "b" -> <<0, 1>>
      [] c = "c" -> <<1, 1>>
      [] c = "n" -> <<-1, 0>>
      [] OTHER -> <<0, 0>>

RECURSIVE Embed(_)
Embed(text) ==
    IF text = <<>> THEN <<0, 0>>
    ELSE LET v == CharVec(Head(text)[1])
             w == Embed(Tail(text))
         IN  <<v[1] + w[1], v[2] + w[2]>>

(* embedder.encode(texts): one vector per text, in order.                  *)
encode(texts) == [i \in 1..Len(texts) |-> Embed(texts[i])]

----------------------------------------------------------------------------
(* app/storage.py                                                          *)

total_len(sections) == SumSeq([i \in 1..Len(sections) |-> StrLen(sections[i])])

(* A plausible slip: the number of sections is summed, not their lengths.  *)
too_long_counts_sections(sections) == Len(sections) > MaxTotalLen

(* total_len > 20_000                                                      *)
too_long(sections) == total_len(sections) > MaxTotalLen

NewBook(req, id) == [id |-> id, title |-> req.title]

(* A plausible slip: the counter of book ids is not advanced.              *)
advance_forgotten(id) == id

(* _next_book_id += 1                                                      *)
advance(id) == id + 1

(* A plausible slip: the counter of book ids is advanced before the        *)
(* sections are stored, and they take the advanced value as book_id.       *)
NewSections_after_advance(req, book_id, first_id) ==
    [i \in 1..Len(req.sections) |->
        [id |-> first_id + i - 1, book_id |-> book_id + 1,
         text |-> req.sections[i], embedding |-> None]]

NewSections(req, book_id, first_id) ==
    [i \in 1..Len(req.sections) |->
        [id |-> first_id + i - 1, book_id |-> book_id,
         text |-> req.sections[i], embedding |-> None]]

list_books == BOOKS

get_book(books, book_id) ==
    LET hits == SelectSeq(books, LAMBDA b : b.id = book_id)
    IN  IF hits = <<>> THEN None ELSE Some(Head(hits))

(* A plausible slip: the comparison with the book id is forgotten.         *)
get_sections_of_any_book(secs, book_id) == Positions(secs)

(* References (positions in SECTIONS) of the sections of a book, in order. *)
get_sections_for_book(secs, book_id) ==
    SelectSeq(Positions(secs), LAMBDA i : secs[i].book_id = book_id)

----------------------------------------------------------------------------
(* app/ai.py: pure parts.                                                  *)

(* A plausible slip: the `is None` filter is forgotten.                    *)
needs_encoding_always(s) == TRUE

(* s["embedding"] is None                                                  *)
needs_encoding(s) == IsNone(s.embedding)

(* The sections of a book that have no embedding yet (references).         *)
to_encode(secs, book_id) ==
    SelectSeq(get_sections_for_book(secs, book_id),
              LAMBDA i : needs_encoding(secs[i]))

(* A plausible slip: the texts of all sections of the book are encoded,    *)
(* not those of to_encode, so that zip pairs a section with another text.  *)
texts_of_all_sections(secs, refs) ==
    IF refs = <<>> THEN <<>>
    ELSE LET all == get_sections_for_book(secs, secs[refs[1]].book_id)
         IN  [j \in 1..Len(all) |-> secs[all[j]].text]

(* texts = [s["text"] for s in to_encode]                                  *)
texts_of(secs, refs) == [j \in 1..Len(refs) |-> secs[refs[j]].text]

(* for s, vec in zip(to_encode, vectors): s["embedding"] = vec             *)
zip_assign(secs, refs, vectors) ==
    [i \in 1..Len(secs) |->
        IF \E j \in 1..Min2(Len(refs), Len(vectors)) : refs[j] = i
        THEN LET j == CHOOSE j \in 1..Min2(Len(refs), Len(vectors)) : refs[j] = i
             IN  [secs[i] EXCEPT !.embedding = Some(vectors[j])]
        ELSE secs[i]]

(* assigned, after the loop above assigned the sections refs once more.    *)
count_assign(cnt, refs) ==
    [i \in 1..Len(cnt) |->
        IF \E j \in 1..Len(refs) : refs[j] = i THEN cnt[i] + 1 ELSE cnt[i]]

dot(a, b) == a[1] * b[1] + a[2] * b[2]

(* A plausible slip: the test of denom is forgotten; den = 0 is a division *)
(* by zero.                                                                *)
_cosine_without_guard(a, b) ==
    [num |-> dot(a, b), den |-> dot(a, a) * dot(b, b)]

(* num / sqrt(den) is dot(a, b) / (norm(a) * norm(b)); 0.0 is 0 / sqrt(1). *)
_cosine_similarity(a, b) ==
    LET denom2 == dot(a, a) * dot(b, b)
    IN  IF denom2 = 0 THEN [num |-> 0, den |-> 1]
        ELSE [num |-> dot(a, b), den |-> denom2]

Sgn(n) == IF n > 0 THEN 1 ELSE IF n < 0 THEN -1 ELSE 0

(* x < y for two cosines.                                                  *)
SimLess(x, y) ==
    Sgn(x.num) * x.num * x.num * y.den < Sgn(y.num) * y.num * y.num * x.den

(* list.sort(key=sim, reverse=True): a stable sort, largest first.         *)
RECURSIVE InsertDesc(_, _)
InsertDesc(sorted, x) ==
    IF sorted = <<>> THEN <<x>>
    ELSE IF SimLess(Head(sorted).sim, x.sim) THEN <<x>> \o sorted
    ELSE <<Head(sorted)>> \o InsertDesc(Tail(sorted), x)

RECURSIVE SortFrom(_, _)
SortFrom(acc, rest) ==
    IF rest = <<>> THEN acc
    ELSE SortFrom(InsertDesc(acc, Head(rest)), Tail(rest))

Reverse(s) == [i \in 1..Len(s) |-> s[Len(s) + 1 - i]]

(* A plausible slip: sorted ascending and then reversed, which turns the   *)
(* order of equal keys around.                                             *)
sort_desc_ties_reversed(sims) == SortFrom(<<>>, Reverse(sims))

sort_desc(sims) == SortFrom(<<>>, sims)

(* A plausible slip: the title hint is looked at before the book id.       *)
choose_target_hint_first(books, req) ==
    IF books = <<>> THEN None
    ELSE IF ~IsNone(req.title_hint) /\ Get(req.title_hint) # <<>>
    THEN LET hint_lower == Lower(Get(req.title_hint))
             hits == SelectSeq(books, LAMBDA b : Contains(Lower(b.title), hint_lower))
         IN  IF hits = <<>> THEN None ELSE Some(Head(hits))
    ELSE IF ~IsNone(req.book_id) THEN get_book(books, Get(req.book_id))
    ELSE Some(books[1])

(* A plausible slip: the title is not lowered before the comparison.       *)
choose_target_case_sensitive(books, req) ==
    IF books = <<>> THEN None
    ELSE IF ~IsNone(req.book_id) THEN get_book(books, Get(req.book_id))
    ELSE IF ~IsNone(req.title_hint) /\ Get(req.title_hint) # <<>>
    THEN LET hint_lower == Lower(Get(req.title_hint))
             hits == SelectSeq(books, LAMBDA b : Contains(b.title, hint_lower))
         IN  IF hits = <<>> THEN None ELSE Some(Head(hits))
    ELSE Some(books[1])

(* A plausible slip: the default is the book registered last.              *)
choose_target_last_default(books, req) ==
    IF books = <<>> THEN None
    ELSE IF ~IsNone(req.book_id) THEN get_book(books, Get(req.book_id))
    ELSE IF ~IsNone(req.title_hint) /\ Get(req.title_hint) # <<>>
    THEN LET hint_lower == Lower(Get(req.title_hint))
             hits == SelectSeq(books, LAMBDA b : Contains(Lower(b.title), hint_lower))
         IN  IF hits = <<>> THEN None ELSE Some(Head(hits))
    ELSE Some(books[Len(books)])

(* The book a request targets (Optional[Book]).                            *)
choose_target(books, req) ==
    IF books = <<>> THEN None
    ELSE IF ~IsNone(req.book_id) THEN get_book(books, Get(req.book_id))
    ELSE IF ~IsNone(req.title_hint) /\ Get(req.title_hint) # <<>>
    THEN LET hint_lower == Lower(Get(req.title_hint))
             hits == SelectSeq(books, LAMBDA b : Contains(Lower(b.title), hint_lower))
         IN  IF hits = <<>> THEN None ELSE Some(Head(hits))
    ELSE Some(books[1])

(* A plausible slip: the embedded sections of every book are taken.        *)
valid_sections_of_all_books(secs, book_id) ==
    SelectSeq(Positions(secs), LAMBDA i : ~IsNone(secs[i].embedding))

valid_sections(secs, book_id) ==
    SelectSeq(get_sections_for_book(secs, book_id),
              LAMBDA i : ~IsNone(secs[i].embedding))

similarities(secs, refs, q_vec) ==
    [j \in 1..Len(refs) |->
        [s |-> refs[j], sim |-> _cosine_similarity(q_vec, Get(secs[refs[j]].embedding))]]

(* A plausible slip: the floor of one result is forgotten.                 *)
top_count_without_floor(top_k, n) == Min2(top_k, n)

(* k = max(1, min(req.top_k, len(sims)))                                   *)
top_count(top_k, n) == Max2(1, Min2(top_k, n))

(* Len(s[:k]) of a list of n items.                                        *)
slice_len(n, k) == IF k < 0 THEN Max2(0, n + k) ELSE Min2(k, n)

(* selected = [item[0] for item in sims[:k]]                               *)
select_top(sims, top_k) ==
    LET k == top_count(top_k, Len(sims))
    IN  [j \in 1..slice_len(Len(sims), k) |-> sims[j].s]

(* The ranked sections of a book whose valid sections are refs.            *)
rank(secs, refs, question, top_k) ==
    select_top(sort_desc(similarities(secs, refs, Embed(question))), top_k)

----------------------------------------------------------------------------
(* app/ai.py: one call, run to completion.  fault names the embedder.encode*)
(* invocation that raises, if any: "none", "sections" or "question".       *)

(* A plausible slip: the texts are encoded one by one inside the loop, so  *)
(* that the sections before the one on which the embedder raises (the last *)
(* one here) have been assigned.                                           *)
_compute_embeddings_one_by_one(secs, book_id, fault) ==
    LET enc == to_encode(secs, book_id)
        done == IF fault = "sections" THEN SubSeq(enc, 1, Len(enc) - 1) ELSE enc
    IN  IF enc = <<>>
        THEN [secs |-> secs, encoded |-> 0, refs |-> <<>>, raised |-> FALSE]
        ELSE [secs |-> zip_assign(secs, done, encode(texts_of(secs, done))),
              encoded |-> 1, refs |-> done, raised |-> fault = "sections"]

(* A plausible slip: embedder.encode is called again when it has raised,   *)
(* and the second call succeeds.                                           *)
_compute_embeddings_with_retry(secs, book_id, fault) ==
    LET enc == to_encode(secs, book_id)
    IN  IF enc = <<>>
        THEN [secs |-> secs, encoded |-> 0, refs |-> <<>>, raised |-> FALSE]
        ELSE [secs |-> zip_assign(secs, enc, encode(texts_of(secs, enc))),
              encoded |-> IF fault = "sections" THEN 2 ELSE 1,
              refs |-> enc, raised |-> FALSE]

(* _compute_embeddings_for_book(book_id): the state after the call.        *)
(* raised: embedder.encode raised, so nothing was assigned.                *)
_compute_embeddings_for_book(secs, book_id, fault) ==
    LET enc == to_encode(secs, book_id)
    IN  IF enc = <<>>
        THEN [secs |-> secs, encoded |-> 0, refs |-> <<>>, raised |-> FALSE]
        ELSE IF fault = "sections"
        THEN [secs |-> secs, encoded |-> 1, refs |-> <<>>, raised |-> TRUE]
        ELSE [secs |-> zip_assign(secs, enc, encode(texts_of(secs, enc))),
              encoded |-> 1, refs |-> enc, raised |-> FALSE]

(* A plausible slip: the book is dropped from the result, as it is when no *)
(* book was found.                                                         *)
no_valid_result_without_book(c, target) ==
    [secs |-> c.secs, encoded |-> c.encoded, refs |-> c.refs, raised |-> FALSE,
     target |-> None, selected |-> <<>>, asked |-> FALSE]

(* if not valid_sections: return target, []                                *)
no_valid_result(c, target) ==
    [secs |-> c.secs, encoded |-> c.encoded, refs |-> c.refs, raised |-> FALSE,
     target |-> target, selected |-> <<>>, asked |-> FALSE]

(* retrieve_relevant_sections(req): the state after the call and its       *)
(* result (target, selected), or raised when an exception left the call;   *)
(* asked: the question was passed to embedder.encode.                      *)
retrieve_relevant_sections(books, secs, req, fault) ==
    LET target == choose_target(books, req)
    IN  IF IsNone(target)
        THEN [secs |-> secs, encoded |-> 0, refs |-> <<>>, raised |-> FALSE,
              target |-> None, selected |-> <<>>, asked |-> FALSE]
        ELSE
        LET c == _compute_embeddings_for_book(secs, Get(target).id, fault)
            valid == valid_sections(c.secs, Get(target).id)
        IN  IF c.raised
            THEN [secs |-> c.secs, encoded |-> c.encoded, refs |-> c.refs, raised |-> TRUE,
                  target |-> None, selected |-> <<>>, asked |-> FALSE]
            ELSE IF valid = <<>>
            THEN no_valid_result(c, target)
            ELSE IF fault = "question"
            THEN [secs |-> c.secs, encoded |-> c.encoded + 1, refs |-> c.refs, raised |-> TRUE,
                  target |-> None, selected |-> <<>>, asked |-> TRUE]
            ELSE [secs |-> c.secs, encoded |-> c.encoded + 1, refs |-> c.refs, raised |-> FALSE,
                  target |-> target,
                  selected |-> rank(c.secs, valid, req.question, req.top_k),
                  asked |-> TRUE]

----------------------------------------------------------------------------
(* app/ai.py: build_prompt and generate_answer.                            *)

(* "..."                                                                   *)
Ellipsis == Rep(".", 3)

(* "\n\n---\n\n"                                                           *)
Separator == << <<"\n", 2>>, <<"-", 3>>, <<"\n", 2>> >>

(* A plausible slip: the text is cut and no marker is appended.            *)
truncate_without_marker(txt) ==
    IF StrLen(txt) > MaxSectionChars THEN Take(txt, MaxSectionChars) ELSE txt

(* if len(txt) > 600: txt = txt[:600] + "..."                              *)
truncate(txt) ==
    IF StrLen(txt) > MaxSectionChars
    THEN Concat(Take(txt, MaxSectionChars), Ellipsis)
    ELSE txt

(* A plausible slip: the parts are put in front of the list, not appended. *)
join_prepending(sep, parts) ==
    IF parts = <<>> THEN <<>>
    ELSE JoinFrom(parts[Len(parts)], sep,
                  [j \in 1..(Len(parts) - 1) |-> parts[Len(parts) - j]])

(* "\n\n---\n\n".join(parts)                                               *)
join(sep, parts) ==
    IF parts = <<>> THEN <<>> ELSE JoinFrom(Head(parts), sep, Tail(parts))

(* build_prompt(question, book_title, sections): the prompt is the fixed   *)
(* template of lines 90-99 filled with these three values.                 *)
build_prompt(question, book_title, texts) ==
    [book_title |-> book_title,
     context |-> join(Separator, [j \in 1..Len(texts) |-> truncate(texts[j])]),
     question |-> question]

(* generate_answer(prompt), given what the pipeline returns for the prompt:*)
(* the text of the first candidate.                                        *)
generate_answer(candidates) == candidates[1].generated_text

----------------------------------------------------------------------------
(* The favourites of app/catalog/router.py.                                *)
(* The file is a record: exists (the path exists), complete (it holds a    *)
(* whole JSON object; a file that is being written, or that holds anything *)
(* else, does not) and data, the mapping of the object: user id to a JSON  *)
(* value [is_list, items].                                                 *)

EmptyDict == [k \in {} |-> <<>>]

(* d.get(k, default)                                                       *)
get(d, k, default) == IF k \in DOMAIN d THEN d[k] ELSE default

(* d[k] = v                                                                *)
put(d, k, v) == [x \in DOMAIN d \cup {k} |-> IF x = k THEN v ELSE d[x]]

(* x in ids                                                                *)
In(ids, x) == \E i \in DOMAIN ids : ids[i] = x

(* ids.remove(x): the first occurrence of x is removed.                    *)
remove(ids, x) ==
    LET first == CHOOSE i \in DOMAIN ids : ids[i] = x /\ \A j \in 1..(i - 1) : ids[j] # x
    IN  [j \in 1..(Len(ids) - 1) |-> IF j < first THEN ids[j] ELSE ids[j + 1]]

NoFile == [exists |-> FALSE, complete |-> FALSE, data |-> EmptyDict]

(* open(FAV_FILE, "w"): the file exists and is empty until json.dump ends. *)
Truncated == [exists |-> TRUE, complete |-> FALSE, data |-> EmptyDict]

(* json.dump(data, f) has written the whole mapping.                       *)
dump(data) ==
    [exists |-> TRUE, complete |-> TRUE,
     data |-> [k \in DOMAIN data |-> [is_list |-> TRUE, items |-> data[k]]]]

(* router._load_favorites()                                                *)
_load_favorites(file) ==
    IF file.exists /\ file.complete
    THEN [k \in DOMAIN file.data |->
            IF file.data[k].is_list THEN file.data[k].items ELSE <<>>]
    ELSE EmptyDict

add_without_membership_test(data, uid, bid) ==
    put(data, uid, Append(get(data, uid, <<>>), bid))

(* router.add_favorite, lines 255-261: the mapping it saves.               *)
add_favorite(data, uid, bid) ==
    LET ids == get(data, uid, <<>>)
    IN  put(data, uid, IF In(ids, bid) THEN ids ELSE Append(ids, bid))

(* router.remove_favorite, lines 277-283: the mapping it saves.            *)
remove_favorite(data, uid, bid) ==
    LET ids == get(data, uid, <<>>)
    IN  IF In(ids, bid) THEN put(data, uid, remove(ids, bid)) ELSE data

(* router.clear_favorites, lines 297-298: the mapping it saves.            *)
clear_favorites(data, uid) == put(data, uid, <<>>)

(* A favourites request: kind, user id, book id (unused by "clear").       *)
FavOp(kind, uid, bid) == [kind |-> kind, user |-> uid, book |-> bid]

(* The mapping the handler of request op saves, having loaded data.        *)
updated(data, op) ==
    IF op.kind = "add" THEN add_favorite(data, op.user, op.book)
    ELSE IF op.kind = "remove" THEN remove_favorite(data, op.user, op.book)
    ELSE clear_favorites(data, op.user)

(* router.list_favorites, lines 232-233: the stored ids of a user.         *)
favourites_of(file, uid) == get(_load_favorites(file), uid, <<>>)

----------------------------------------------------------------------------
(* The catalogue: app/catalog/router.py, store.py, openlibrary_service.py. *)
(* A catalogue book is a record id, title, author, year, rating, language, *)
(* categories, tags; strings are short str, without surrounding blanks, a  *)
(* rating is a whole number.                                               *)

MinPageSize == 4

(* `s or ""`                                                               *)
OrEmpty(o) == IF IsNone(o) THEN <<>> ELSE Get(o)

(* router._normalize(s), store._norm(s)                                    *)
_normalize(o) == Lower(OrEmpty(o))

(* ord(c), on the characters the model uses.                               *)
Ord(c) ==
    CASE c = "A" -> 65
      [] c = "B" -> 66
      [] c = "a" -> 97
      [] c = "b" -> 98
      [] c = "e" -> 101
      [] c = "f" -> 102
      [] c = "n" -> 110
      [] c = "r" -> 114
      [] OTHER -> 0

(* s < t of two short str.                                                 *)
StrLess(s, t) ==
    \E i \in 1..(Len(t)) :
        /\ \A j \in 1..(i - 1) : j <= Len(s) /\ s[j] = t[j]
        /\ i > Len(s) \/ Ord(s[i]) < Ord(t[i])

(* (a1, a2) < (b1, b2) of two pairs of short str.                          *)
PairLess(a1, a2, b1, b2) == StrLess(a1, b1) \/ (a1 = b1 /\ StrLess(a2, b2))

(* `year or 0`, `rating if rating is not None else 0.0`                    *)
OrZero(o) == IF IsNone(o) THEN 0 ELSE Get(o)

(* x sorts strictly before y under sort field `sort` (router.py lines      *)
(* 155-162, store.py lines 182-189).                                       *)
sorts_before(sort, x, y) ==
    CASE sort = "title" ->
            PairLess(Lower(x.title), Lower(x.author), Lower(y.title), Lower(y.author))
      [] sort = "author" ->
            PairLess(Lower(x.author), Lower(x.title), Lower(y.author), Lower(y.title))
      [] sort = "year" -> OrZero(x.year) > OrZero(y.year)
      [] sort = "rating" -> OrZero(x.rating) > OrZero(y.rating)
      [] OTHER -> FALSE

RECURSIVE insert_sorted(_, _, _)
insert_sorted(sort, sorted, x) ==
    IF sorted = <<>> THEN <<x>>
    ELSE IF sorts_before(sort, x, Head(sorted)) THEN <<x>> \o sorted
    ELSE <<Head(sorted)>> \o insert_sorted(sort, Tail(sorted), x)

RECURSIVE sort_from(_, _, _)
sort_from(sort, acc, rest) ==
    IF rest = <<>> THEN acc
    ELSE sort_from(sort, insert_sorted(sort, acc, Head(rest)), Tail(rest))

(* books.sort(key=..., reverse=...): a stable sort; "relevance" leaves the *)
(* list as it is.                                                          *)
sort_books(books, sort) == sort_from(sort, <<>>, books)

(* items[start:end]                                                        *)
slice(items, start, end) ==
    SubSeq(items, Min2(start, Len(items)) + 1, Min2(end, Len(items)))

Fr == <<"f", "r">>

En == <<"e", "n">>

Ar == <<"a", "r">>

(* router.LANG_ALIASES.get(req, {req})                                     *)
aliases(req) ==
    CASE req = Fr -> {Fr, Fr \o <<"a">>, Fr \o <<"e">>, Fr \o <<"-">> \o Fr,
                      Fr \o <<"_", "c", "a">>, Fr \o <<"-", "c", "a">>}
      [] req = En -> {En, En \o <<"g">>, En \o <<"-", "u", "s">>, En \o <<"_", "u", "s">>,
                      En \o <<"-", "g", "b">>, En \o <<"_", "g", "b">>}
      [] req = Ar -> {Ar, Ar \o <<"a">>, Ar \o <<"-", "s", "a">>, Ar \o <<"_", "s", "a">>,
                      Ar \o <<"-", "m", "a">>, Ar \o <<"_", "m", "a">>}
      [] OTHER -> {req}

(* router._lang_matches(book_lang, requested); `bl == alias` and           *)
(* `bl.startswith(alias)` are cases of `alias in bl`.                      *)
_lang_matches(book_lang, requested) ==
    \/ OrEmpty(requested) = <<>>
    \/ Lower(book_lang) = <<>>
    \/ \E alias \in aliases(Lower(Get(requested))) : Contains(Lower(book_lang), alias)

(* any(_normalize(c) == wanted for c in names)                             *)
any_equal(names, wanted) == \E i \in DOMAIN names : Lower(names[i]) = wanted

(* router.list_books, lines 147-152: each filter that is asked for builds  *)
(* a new list.                                                             *)
filtered(books, req) ==
    LET by_cat == IF _normalize(req.category) # <<>>
                  THEN SelectSeq(books, LAMBDA b : any_equal(b.categories, _normalize(req.category)))
                  ELSE books
        by_tag == IF _normalize(req.tag) # <<>>
                  THEN SelectSeq(by_cat, LAMBDA b : any_equal(b.tags, _normalize(req.tag)))
                  ELSE by_cat
    IN  IF OrEmpty(req.language) # <<>>
        THEN SelectSeq(by_tag, LAMBDA b : _lang_matches(b.language, req.language))
        ELSE by_tag

(* The list that is sorted at lines 155-162 is the list the search         *)
(* returned, and no copy of it, when no filter was asked for.              *)
is_same_list(req) ==
    /\ _normalize(req.category) = <<>>
    /\ _normalize(req.tag) = <<>>
    /\ OrEmpty(req.language) = <<>>

(* router.list_books, lines 164-180.                                       *)
paginated(books, req) ==
    LET total == Len(books)
        total_pages == IF total > 0
                       THEN Max2(1, (total + req.page_size - 1) \div req.page_size)
                       ELSE 1
        page == Min2(Max2(1, req.page), total_pages)
    IN  [page |-> page, page_size |-> req.page_size, total |-> total,
         total_pages |-> total_pages,
         items |-> slice(books, (page - 1) * req.page_size, page * req.page_size)]

(* store._search_books_local(...)[0] over the sample books: a new list.    *)
_search_books_local(sample, req) ==
    LET nq == _normalize(req.q)
        blob(b) == Lower(b.title) \o <<" ">> \o Lower(b.author)
        hits == IF nq # <<>> THEN SelectSeq(sample, LAMBDA b : Contains(blob(b), nq))
                ELSE sample
        by_cat == IF _normalize(req.category) # <<>>
                  THEN SelectSeq(hits, LAMBDA b : any_equal(b.categories, _normalize(req.category)))
                  ELSE hits
        by_tag == IF _normalize(req.tag) # <<>>
                  THEN SelectSeq(by_cat, LAMBDA b : any_equal(b.tags, _normalize(req.tag)))
                  ELSE by_cat
        by_lang == IF _normalize(req.language) # <<>>
                   THEN SelectSeq(by_tag, LAMBDA b : Lower(b.language) = _normalize(req.language))
                   ELSE by_tag
        ps == Max2(1, req.page_size)
        pg == Max2(1, req.page)
    IN  slice(sort_books(by_lang, req.sort), (pg - 1) * ps, pg * ps)

(* openlibrary_service.search_books_openlibrary, line 189: the cache key.  *)
cache_key(req) ==
    <<OrEmpty(req.q), OrEmpty(req.category), OrEmpty(req.tag), OrEmpty(req.language),
      req.page, req.page_size>>

CatalogBook(id, title, author, year, rating, language, categories, tags) ==
    [id |-> id, title |-> title, author |-> author, year |-> year, rating |-> rating,
     language |-> language, categories |-> categories, tags |-> tags]

Sf == <<"s", "f">>

(* What Open Library holds: three works for the query "a" (one page), none *)
(* for any other query.  Their order is the provider's relevance order.    *)
P1 == CatalogBook("W1", <<"b">>, <<"a">>, Some(1965), None, En, <<Sf>>, <<>>)

P2 == CatalogBook("W2", <<"A">>, <<"b">>, None, Some(4), Fr, <<>>, <<Sf>>)

P3 == CatalogBook("W3", <<"a">>, <<"B">>, Some(1984), Some(4), En \o <<"g">>, <<Sf>>, <<Sf>>)

(* The books of the docs the search request for req is answered with.      *)
OpenLibraryDocs(req) ==
    IF OrEmpty(req.q) = <<"a">> /\ Max2(1, req.page) = 1
    THEN slice(<<P1, P2, P3>>, 0, Max2(1, req.page_size))
    ELSE <<>>

(* store.BOOKS: the sample books of the local fallback.                    *)
SampleBooks ==
    << CatalogBook("L1", <<"b">>, <<"b">>, Some(2001), Some(3), Fr, <<Sf>>, <<>>),
       CatalogBook("L2", <<"a", "b">>, <<"a">>, None, None, En, <<>>, <<>>) >>

(* A plausible slip: an empty answer is not cached.                        *)
cached_unless_empty(cache, key, books) ==
    IF books = <<>> THEN cache ELSE put(cache, key, books)

(* _search_cache[cache_key] = books (lines 213 and 268)                    *)
cached(cache, key, books) == put(cache, key, books)

(* openlibrary_service.search_books_openlibrary(...): the list returned,   *)
(* the cache and the number of HTTP requests sent.  http_ok: the request   *)
(* is answered with docs.                                                  *)
search_books_openlibrary(cache, req, http_ok) ==
    LET key == cache_key(req)
    IN  IF key \in DOMAIN cache
        THEN [found |-> cache[key], cache |-> cache, requests |-> 0]
        ELSE LET books == IF http_ok THEN OpenLibraryDocs(req) ELSE <<>>
             IN  [found |-> books, cache |-> cached(cache, key, books), requests |-> 1]

(* books.sort(...) at router.py lines 155-162 sorts the list in place: the *)
(* cache entry too, when the list is the one the cache holds.              *)
sorted_in_place(cache, req, books) ==
    IF is_same_list(req) THEN put(cache, cache_key(req), books) ELSE cache

(* router.list_books(...): the response, the cache and the HTTP requests.  *)
list_books_page(cache, req, http_ok) ==
    LET s == search_books_openlibrary(cache, req, http_ok)
        from_provider == s.found # <<>>
        books == sort_books(filtered(IF from_provider THEN s.found
                                     ELSE _search_books_local(SampleBooks, req), req),
                            req.sort)
    IN  [found |-> s.found,
         source |-> IF from_provider THEN "provider" ELSE "local",
         cache |-> IF from_provider THEN sorted_in_place(s.cache, req, books) ELSE s.cache,
         requests |-> s.requests,
         result |-> paginated(books, req)]

(* A book id is the sequence of its parts between "/": "/works/W1" is     *)
(* <<"works", "W1">>, the empty string is <<>>.                            *)
(* book_id.strip().split('/')[-1]                                          *)
work_id_of(book_id) == book_id[Len(book_id)]

(* The works Open Library holds: title, author keys, year.                 *)
OpenLibraryWork(work_id) ==
    CASE work_id = "W1" -> Some([title |-> <<"b">>, authors |-> <<"A1">>, year |-> Some(1965)])
      [] work_id = "W3" -> Some([title |-> <<"a">>, authors |-> <<>>, year |-> Some(1984)])
      [] OTHER -> None

(* The name Open Library holds for an author key.                         *)
OpenLibraryAuthor(key) == <<"a">>

(* openlibrary_service._get_author_name(key), with its cache: the name, if *)
(* any, the cache and the requests sent.  ok: the request is answered.     *)
_get_author_name(cache, key, ok) ==
    IF key \in DOMAIN cache
    THEN [name |-> Some(cache[key]), cache |-> cache, requests |-> 0]
    ELSE IF ok
    THEN [name |-> Some(OpenLibraryAuthor(key)),
          cache |-> put(cache, key, OpenLibraryAuthor(key)), requests |-> 1]
    ELSE [name |-> None, cache |-> cache, requests |-> 1]

(* openlibrary_service.get_book_openlibrary(book_id), for works of at most *)
(* one author: the book, if any, the caches and the requests sent.         *)
(* work_ok, author_ok: the request for the work, for its author, is        *)
(* answered.                                                               *)
get_book_openlibrary(works, authors, book_id, work_ok, author_ok) ==
    LET none(n) == [found |-> None, works |-> works, authors |-> authors, requests |-> n]
    IN  IF book_id = <<>> THEN none(0)
        ELSE LET work_id == work_id_of(book_id)
                 data == IF work_ok THEN OpenLibraryWork(work_id) ELSE None
             IN  IF work_id \in DOMAIN works
                 THEN [found |-> Some(works[work_id]), works |-> works,
                       authors |-> authors, requests |-> 0]
                 ELSE IF IsNone(data) THEN none(1)
                 ELSE LET a == IF Get(data).authors = <<>>
                               THEN [name |-> None, cache |-> authors, requests |-> 0]
                               ELSE _get_author_name(authors, Get(data).authors[1], author_ok)
                          book == CatalogBook(work_id, Get(data).title, OrEmpty(a.name),
                                              Get(data).year, None, Fr, <<>>, <<>>)
                      IN  [found |-> Some(book), works |-> put(works, work_id, book),
                           authors |-> a.cache, requests |-> 1 + a.requests]

(* store.get_book_google(book_id), lines 334-338: the local fallback.      *)
local_book(sample, book_id) ==
    LET hits == SelectSeq(sample, LAMBDA b : <<b.id>> = book_id)
    IN  IF hits = <<>> THEN None ELSE Some(Head(hits))

----------------------------------------------------------------------------
(* The chat store of app/main.py: token -> work id -> list of messages.    *)
(* A message is a record role, content (its time stamp is left out), the   *)
(* content a tuple of strings; a payload is a record token, work_id,       *)
(* message of optional strings, None for a key the payload does not have.  *)

(* `not s`                                                                 *)
falsy(o) == IsNone(o) \/ Get(o) = ""

Payload(token, work_id, message) ==
    [token |-> token, work_id |-> work_id, message |-> message]

Message(role, content) == [role |-> role, content |-> content]

(* if token not in CHAT_STORE: CHAT_STORE[token] = {}                      *)
with_session(store, token) ==
    IF token \in DOMAIN store THEN store ELSE put(store, token, EmptyDict)

(* CHAT_STORE[token][work_id] = messages                                   *)
with_history(store, token, work_id, messages) ==
    put(store, token, put(store[token], work_id, messages))

Response(status, store, body) == [status |-> status, store |-> store, body |-> body]

(* A plausible slip: a token that was not issued is rejected.              *)
get_history_of_known_tokens(store, work_id, token) ==
    IF token = "" \/ token \notin DOMAIN store THEN Response(401, store, <<>>)
    ELSE Response(200, store, get(store[token], work_id, <<>>))

(* main.get_history(work_id, token)                                        *)
get_history(store, work_id, token) ==
    IF token = "" THEN Response(401, store, <<>>)
    ELSE Response(200, with_session(store, token),
                  get(with_session(store, token)[token], work_id, <<>>))

(* main.reset_history(payload)                                             *)
reset_history(store, payload) ==
    IF falsy(payload.token) THEN Response(401, store, <<>>)
    ELSE IF falsy(payload.work_id) THEN Response(400, store, <<>>)
    ELSE Response(200,
                  with_history(with_session(store, Get(payload.token)),
                               Get(payload.token), Get(payload.work_id), <<>>),
                  <<>>)

(* The answer to a message about a work (lines 440-615).                   *)
answer_to(work_id, message) == <<"answer", work_id, message>>

(* main.chat_with_book(payload); fetched: fetch_work(work_id) returns the  *)
(* data of the work (line 440), it raises the 503 of line 295 otherwise.   *)
chat_with_book(store, payload, fetched) ==
    IF falsy(payload.token) THEN Response(401, store, <<>>)
    ELSE LET token == Get(payload.token)
             s1 == with_session(store, token)
         IN  IF falsy(payload.message) \/ falsy(payload.work_id)
             THEN Response(400, s1, <<>>)
             ELSE LET work_id == Get(payload.work_id)
                      asked == Append(get(s1[token], work_id, <<>>),
                                      Message("user", <<Get(payload.message)>>))
                      answered == Append(asked,
                                         Message("assistant",
                                                 answer_to(work_id, Get(payload.message))))
                  IN  IF fetched
                      THEN Response(200, with_history(s1, token, work_id, answered), answered)
                      ELSE Response(503, with_history(s1, token, work_id, asked), <<>>)

----------------------------------------------------------------------------
(* Sequential runs: each action is one call, run to completion.            *)

Faults == {"none", "sections", "question"}

(* storage.add_book(req)                                                   *)
AddBook(req) ==
    /\ calls' = calls + 1
    /\ UNCHANGED <<encode_calls, thr, site>>
    /\ IF too_long(req.sections)
       THEN /\ UNCHANGED <<registry, assigned>>
            /\ last' = [op |-> "add_book", req |-> req, outcome |-> "ValueError",
                        book |-> None]
       ELSE /\ Len(BOOKS) < MaxBooks
            /\ BOOKS' = Append(BOOKS, NewBook(req, next_book_id))
            /\ SECTIONS' = SECTIONS \o NewSections(req, next_book_id, next_section_id)
            /\ next_section_id' = next_section_id + Len(req.sections)
            /\ next_book_id' = advance(next_book_id)
            /\ assigned' = assigned \o [i \in 1..Len(req.sections) |-> 0]
            /\ last' = [op |-> "add_book", req |-> req, outcome |-> "ok",
                        book |-> Some(NewBook(req, next_book_id))]

(* ai._compute_embeddings_for_book(book_id)                                *)
EnsureEmbeddings(book_id, fault) ==
    \E c \in {_compute_embeddings_for_book(SECTIONS, book_id, fault)} :
        /\ calls' = calls + 1
        /\ SECTIONS' = c.secs
        /\ encode_calls' = encode_calls + c.encoded
        /\ assigned' = count_assign(assigned, c.refs)
        /\ last' = [op |-> "ensure", req |-> book_id, fault |-> fault,
                    outcome |-> IF c.raised THEN "error" ELSE "ok",
                    encoded |-> c.encoded,
                    nth |-> IF c.raised THEN 0
                            ELSE IF last.op = "ensure" /\ last.req = book_id
                            THEN last.nth + 1 ELSE 1]
        /\ UNCHANGED <<BOOKS, next_book_id, next_section_id, thr, site>>

(* ai.retrieve_relevant_sections(req)                                      *)
Retrieve(req, fault) ==
    \E r \in {retrieve_relevant_sections(list_books, SECTIONS, req, fault)} :
        /\ calls' = calls + 1
        /\ SECTIONS' = r.secs
        /\ encode_calls' = encode_calls + r.encoded
        /\ assigned' = count_assign(assigned, r.refs)
        /\ last' = [op |-> "retrieve", req |-> req, fault |-> fault,
                    outcome |-> IF r.raised THEN "error" ELSE "ok",
                    target |-> r.target, selected |-> r.selected,
                    encoded |-> r.encoded, asked |-> r.asked]
        /\ UNCHANGED <<BOOKS, next_book_id, next_section_id, thr, site>>

(* ai.build_prompt(req.question, target.title, selected), called with the *)
(* result of the retrieval that has just returned a book.                  *)
BuildPrompt ==
    /\ last.op = "retrieve"
    /\ last.outcome = "ok"
    /\ ~IsNone(last.target)
    /\ calls' = calls + 1
    /\ last' = [op |-> "build_prompt", req |-> last.req, target |-> last.target,
                sections |-> last.selected,
                prompt |-> build_prompt(last.req.question, Get(last.target).title,
                                        texts_of(SECTIONS, last.selected))]
    /\ UNCHANGED <<registry, encode_calls, assigned, thr, site>>

(* ai.generate_answer(prompt), called with the prompt that has just been   *)
(* built; the pipeline returns candidates or raises (ok = FALSE).          *)
(* generated: the number of invocations of text2text_pipeline.             *)
GenerateAnswer(candidates, ok) ==
    /\ last.op = "build_prompt"
    /\ calls' = calls + 1
    /\ last' = [op |-> "generate_answer", prompt |-> last.prompt, ok |-> ok,
                candidates |-> candidates, generated |-> 1,
                outcome |-> IF ok THEN "ok" ELSE "error",
                result |-> IF ok THEN Some(generate_answer(candidates)) ELSE None]
    /\ UNCHANGED <<registry, encode_calls, assigned, thr, site>>

(* A request thread that has not started.                                  *)
Idle ==
    [pc |-> "idle", req |-> None, target |-> None, seq |-> 0, sections |-> <<>>,
     enc |-> <<>>, vectors |-> <<>>, i |-> 1, valid |-> <<>>, selected |-> <<>>]

(* An add_book call that has not started (book_id: the id read at line   *)
(* 23; i: the section the loop is at; tmp: the value read by a `+= 1`).    *)
AdderIdle == [pc |-> "idle", req |-> None, book_id |-> 0, i |-> 1, tmp |-> 0]

(* A favourites request that has not arrived (data: the loaded mapping).   *)
FavIdle == [pc |-> "idle", op |-> None, data |-> EmptyDict]

Users == {"u1", "u2"}

FavBooks == {"b1", "b2"}

(* The server has started: the module-level assignments have run.          *)
ProcessStarted ==
    /\ BOOKS = <<>>
    /\ SECTIONS = <<>>
    /\ next_book_id = 1
    /\ next_section_id = 1
    /\ encode_calls = 0
    /\ assigned = <<>>
    /\ calls = 0
    /\ last = [op |-> "none"]
    /\ thr = [p \in 1..NumProcs |-> Idle]
    /\ adders = [a \in 1..NumAdders |-> AdderIdle]
    /\ fav_lock = None
    /\ fav_req = [p \in 1..NumFavRequests |-> FavIdle]
    /\ CHAT_STORE = EmptyDict
    /\ search_cache = EmptyDict
    /\ work_cache = EmptyDict
    /\ author_cache = EmptyDict
    /\ http_requests = 0
    /\ cat_log = [searched |-> EmptyDict, looked_up |-> EmptyDict, books |-> EmptyDict]

(* Nothing is known of earlier favourites operations but what the file     *)
(* holds: a stored id counts as added.                                     *)
log_of(file) ==
    [ops |-> [u \in Users |-> [b \in FavBooks |->
                IF In(favourites_of(file, u), b) THEN "add" ELSE "none"]],
     initial |-> file, write_failed |-> FALSE]

Init ==
    /\ ProcessStarted
    /\ fav_file = NoFile
    /\ fav_log = log_of(NoFile)

----------------------------------------------------------------------------
(* The inputs.                                                             *)

Dune == <<"D", "u", "n", "e">>

Found == <<"F", "o", "u", "n", "d">>

SeqsUpTo(S, n) == UNION {[1..k -> S] : k \in 0..n}

QARequest(book_id, title_hint, top_k, question) ==
    [book_id |-> book_id, title_hint |-> title_hint, top_k |-> top_k,
     question |-> question]

(* Registry runs: section lists around the 20,000 character ceiling.       *)
StoreTexts == {Rep("c", 10000), Rep("z", 10001)}

StoreAdds == [title : {Dune}, sections : SeqsUpTo(StoreTexts, MaxSections)]

StoreAsks ==
    {QARequest(b, None, DefaultTopK, Rep("a", 5)) : b \in {None, Some(2)}}

Next ==
    \/ calls < MaxCalls /\ \E req \in StoreAdds : AddBook(req)
    \/ calls < MaxCalls /\ \E b \in 1..MaxBooks, fault \in {"none", "sections"} :
            EnsureEmbeddings(b, fault)
    \/ calls < MaxCalls /\ \E req \in StoreAsks, fault \in Faults : Retrieve(req, fault)

Spec == Init /\ [][Next]_vars

----------------------------------------------------------------------------
(* Properties of the registry (Spec).                                      *)

sections_len_of(book_id) ==
    total_len(texts_of(SECTIONS, get_sections_for_book(SECTIONS, book_id)))

(* C1: an add-book request whose sections have more than 20,000 characters *)
(* in total fails with the validation error and leaves BOOKS, SECTIONS and *)
(* the two id counters as they were.                                       *)
C1_OversizeRejectedAtomically ==
    [][(calls' # calls /\ last'.op = "add_book"
            /\ total_len(last'.req.sections) > MaxTotalLen)
        => (last'.outcome = "ValueError" /\ UNCHANGED registry)]_vars

C1_Witness ==
    /\ last.op = "add_book"
    /\ last.outcome = "ValueError"
    /\ total_len(last.req.sections) = MaxTotalLen + 1
    /\ Len(BOOKS) >= 1
    /\ Len(SECTIONS) >= 1

(* C2: in every reachable state the sections stored under the id of each   *)
(* registered book have at most 20,000 characters in total.                *)
C2_StoredBooksWithinCeiling ==
    \A i \in 1..Len(BOOKS) : sections_len_of(BOOKS[i].id) <= MaxTotalLen

C2_Witness ==
    /\ last.op = "retrieve"
    /\ last.outcome = "ok"
    /\ \E i \in 1..Len(BOOKS) : sections_len_of(BOOKS[i].id) = MaxTotalLen
    /\ \E i \in 1..Len(SECTIONS) : ~IsNone(SECTIONS[i].embedding)

(* C4: a call of ensure-embeddings that directly follows a call on the     *)
(* same book that returned normally changes no section and does not invoke *)
(* the embedding model.                                                    *)
C4_SecondEnsureIsNoOp ==
    [][(calls' # calls /\ last.op = "ensure" /\ last.outcome = "ok"
            /\ last'.op = "ensure" /\ last'.req = last.req)
        => (SECTIONS' = SECTIONS /\ encode_calls' = encode_calls
                /\ last'.outcome = "ok")]_vars

C4_Witness ==
    /\ last.op = "ensure"
    /\ last.nth >= 2
    /\ Len(get_sections_for_book(SECTIONS, last.req)) >= 2
    /\ to_encode(SECTIONS, last.req) = <<>>
    /\ encode_calls = 1

(* The sections of a book that have no embedding (positions).              *)
unset_of(secs, book_id) ==
    {i \in 1..Len(secs) : secs[i].book_id = book_id /\ IsNone(secs[i].embedding)}

(* C12: when the embedding model fails during ensure-embeddings the call   *)
(* fails and assigns no embedding: SECTIONS is as before, so every section *)
(* that was unset is still unset.                                          *)
C12_FailedEnsureAssignsNothing ==
    [][(calls' # calls /\ last'.op = "ensure")
        => /\ (last'.fault = "sections" /\ last'.encoded > 0)
                => last'.outcome = "error"
           /\ last'.outcome = "error"
                => /\ SECTIONS' = SECTIONS
                   /\ assigned' = assigned
                   /\ \A b \in 1..MaxBooks : unset_of(SECTIONS', b) = unset_of(SECTIONS, b)]_vars

(* The embedder raised on the two sections of the second book while the    *)
(* first book is embedded.                                                 *)
C12_Witness ==
    /\ last.op = "ensure"
    /\ last.outcome = "error"
    /\ last.req = 2
    /\ Cardinality(unset_of(SECTIONS, 2)) = 2
    /\ Len(SECTIONS) > 2
    /\ unset_of(SECTIONS, 1) = {}

(* C13: an ensure-embeddings call that returns sets the embedding of the   *)
(* sections of its book that were unset and changes nothing else of        *)
(* SECTIONS; afterwards every section of the book is embedded; when the    *)
(* book has no unset section (or no section) nothing changes and the       *)
(* embedding model is not invoked.                                         *)
C13_EnsureSetsExactlyUnset ==
    [][(calls' # calls /\ last'.op = "ensure" /\ last'.outcome = "ok")
        => LET b == last'.req
           IN  /\ Len(SECTIONS') = Len(SECTIONS)
               /\ \A i \in 1..Len(SECTIONS) :
                    IF i \in unset_of(SECTIONS, b)
                    THEN /\ ~IsNone(SECTIONS'[i].embedding)
                         /\ SECTIONS'[i] = [SECTIONS[i] EXCEPT
                                                !.embedding = SECTIONS'[i].embedding]
                    ELSE SECTIONS'[i] = SECTIONS[i]
               /\ unset_of(SECTIONS', b) = {}
               /\ unset_of(SECTIONS, b) = {}
                    => SECTIONS' = SECTIONS /\ encode_calls' = encode_calls
               /\ unset_of(SECTIONS, b) # {} => encode_calls' = encode_calls + 1]_vars

(* The two sections of the second book were set by the call; the section   *)
(* of the first book is still unset.                                       *)
C13_Witness ==
    /\ last.op = "ensure"
    /\ last.outcome = "ok"
    /\ last.req = 2
    /\ last.encoded = 1
    /\ Len(SECTIONS) = 3
    /\ IsNone(SECTIONS[1].embedding)
    /\ \A i \in 2..3 :
        SECTIONS[i].book_id = 2 /\ ~IsNone(SECTIONS[i].embedding) /\ assigned[i] = 1

(* C17: through every step the books of the registry have strictly        *)
(* increasing ids in registration order, hence pairwise distinct ones, and *)
(* the books registered before the step are still there, in their places,  *)
(* with the same id and fields; this holds for accepted and for rejected   *)
(* add-book requests.                                                      *)
C17_BookIdsIncreasingAndStable ==
    [][/\ \A i, j \in 1..Len(BOOKS') : i < j => BOOKS'[i].id < BOOKS'[j].id
       /\ Len(BOOKS') >= Len(BOOKS)
       /\ \A i \in 1..Len(BOOKS) : BOOKS'[i] = BOOKS[i]
       /\ \A i \in 1..Len(BOOKS') : BOOKS'[i].id < next_book_id']_vars

(* Two books of three sections are registered, after four calls of which   *)
(* the last was a rejected add-book request.                               *)
C17_Witness ==
    /\ Len(BOOKS) = 2
    /\ BOOKS[1].id < BOOKS[2].id
    /\ calls = 4
    /\ encode_calls = 0
    /\ last.op = "add_book"
    /\ last.outcome = "ValueError"
    /\ Len(SECTIONS) = 3

----------------------------------------------------------------------------
(* Ranking runs (RankSpec): a small first book, then a book whose sections *)
(* have equal, opposite, orthogonal and zero embeddings.                   *)

RankTexts == {Rep("a", 50), Rep("b", 700), Rep("n", 20), Rep("z", 3)}

RankFirstAdds == [title : {Found}, sections : {<<>>, <<Rep("b", 700)>>}]

RankAdds == [title : {Dune}, sections : SeqsUpTo(RankTexts, MaxRankSections)]

TopKs == {-1, 0, 1, 2, MaxRankSections, MaxRankSections + 2}

Questions == {Rep("a", 5), Rep("c", 5), Rep("z", 5)}

RankAsks ==
    {QARequest(b, None, k, q) : b \in {None, Some(2)}, k \in TopKs, q \in Questions}

RankNext ==
    \/ calls < MaxRankCalls /\ BOOKS = <<>> /\ \E req \in RankFirstAdds : AddBook(req)
    \/ calls < MaxRankCalls /\ Len(BOOKS) = 1 /\ \E req \in RankAdds : AddBook(req)
    \/ calls < MaxRankCalls /\ \E req \in RankAsks : Retrieve(req, "none")

RankSpec == Init /\ [][RankNext]_vars

(* The last call was a retrieval that returned a book.                     *)
Returned == last.op = "retrieve" /\ last.outcome = "ok" /\ ~IsNone(last.target)

(* The similarity of section i to the question of the last request.       *)
sim_of(i) == _cosine_similarity(Embed(last.req.question), Get(SECTIONS[i].embedding))

embedded_of(book_id) ==
    {i \in 1..Len(SECTIONS) :
        SECTIONS[i].book_id = book_id /\ ~IsNone(SECTIONS[i].embedding)}

(* C6: for a resolved book with n >= 1 embedded sections and any top_k the *)
(* retrieval returns max(1, min(top_k, n)) sections: 1 when top_k < 1,     *)
(* n when top_k > n and top_k otherwise.                                   *)
C6_ReturnsClampedCount ==
    Returned =>
        LET n == Cardinality(embedded_of(Get(last.target).id))
            k == last.req.top_k
        IN  n >= 1 =>
                /\ Len(last.selected) = (IF k < 1 THEN 1 ELSE IF k > n THEN n ELSE k)
                /\ Len(last.selected) >= 1
                /\ Len(last.selected) <= n

C6_Witness ==
    /\ Returned
    /\ last.req.top_k = 0
    /\ Cardinality(embedded_of(Get(last.target).id)) = 2
    /\ Len(last.selected) = 1

(* C7: the returned sections are in descending order of similarity to the  *)
(* question, no embedded section of the book that was left out is strictly *)
(* more similar than a returned one, and sections of equal similarity are  *)
(* in registry order (a left-out one after every returned one it ties).    *)
C7_RankedDescendingStable ==
    Returned =>
        LET sel == last.selected
            out == embedded_of(Get(last.target).id) \ {sel[j] : j \in 1..Len(sel)}
        IN  /\ \A j, k \in 1..Len(sel) :
                j < k => /\ ~SimLess(sim_of(sel[j]), sim_of(sel[k]))
                         /\ ~SimLess(sim_of(sel[k]), sim_of(sel[j])) => sel[j] < sel[k]
            /\ \A j \in 1..Len(sel) : \A v \in out :
                /\ ~SimLess(sim_of(sel[j]), sim_of(v))
                /\ ~SimLess(sim_of(v), sim_of(sel[j])) => sel[j] < v

(* Two sections of different text tie and keep their order, a less similar *)
(* section is left out.                                                    *)
C7_Witness ==
    /\ Returned
    /\ Len(last.selected) = 2
    /\ Cardinality(embedded_of(Get(last.target).id)) = 3
    /\ SECTIONS[last.selected[1]].text # SECTIONS[last.selected[2]].text
    /\ ~SimLess(sim_of(last.selected[2]), sim_of(last.selected[1]))
    /\ last.selected[2] > last.selected[1] + 1

(* C16: the similarity the retrieval computes for a section is never a     *)
(* division by zero; it is 0.0 when the vector of the question or that of  *)
(* the section is the zero vector, and dot(a,b) / (norm(a) * norm(b)) when *)
(* neither is.                                                             *)
C16_CosineOfZeroVectorIsZero ==
    Returned =>
        \A i \in embedded_of(Get(last.target).id) :
            LET a == Embed(last.req.question)
                b == Get(SECTIONS[i].embedding)
                c == sim_of(i)
            IN  /\ c.den > 0
                /\ (a = <<0, 0>> \/ b = <<0, 0>>) => c.num = 0
                /\ (a # <<0, 0>> /\ b # <<0, 0>>) =>
                        /\ Sgn(c.num) = Sgn(dot(a, b))
                        /\ c.num * c.num * dot(a, a) * dot(b, b)
                                = dot(a, b) * dot(a, b) * c.den

(* A question of zero vector met a section of zero vector and a section    *)
(* of another vector.                                                      *)
C16_Witness ==
    /\ Returned
    /\ Embed(last.req.question) = <<0, 0>>
    /\ \E i, j \in embedded_of(Get(last.target).id) :
        /\ SECTIONS[i].embedding = Some(<<0, 0>>)
        /\ SECTIONS[j].embedding # Some(<<0, 0>>)
        /\ sim_of(i).num = 0
        /\ sim_of(j).num = 0
    /\ Len(last.selected) >= 2

(* C19: an accepted add-book request appends one book at the end of BOOKS  *)
(* and one section per supplied string at the end of SECTIONS, in the      *)
(* supplied order, each with the id of the new book, the supplied text and *)
(* no embedding; it returns the new book; the books and sections that were *)
(* there are as before.                                                    *)
C19_AddBookAppends ==
    [][(calls' # calls /\ last'.op = "add_book" /\ last'.outcome = "ok")
        => LET req == last'.req
               n == Len(req.sections)
               new == BOOKS'[Len(BOOKS')]
           IN  /\ Len(BOOKS') = Len(BOOKS) + 1
               /\ SubSeq(BOOKS', 1, Len(BOOKS)) = BOOKS
               /\ new.title = req.title
               /\ \A i \in 1..Len(BOOKS) : BOOKS[i].id # new.id
               /\ last'.book = Some(new)
               /\ Len(SECTIONS') = Len(SECTIONS) + n
               /\ SubSeq(SECTIONS', 1, Len(SECTIONS)) = SECTIONS
               /\ \A j \in 1..n :
                    /\ SECTIONS'[Len(SECTIONS) + j].book_id = new.id
                    /\ SECTIONS'[Len(SECTIONS) + j].text = req.sections[j]
                    /\ IsNone(SECTIONS'[Len(SECTIONS) + j].embedding)]_vars

(* A book of three sections of different texts was added after a book      *)
(* whose section is embedded.                                              *)
C19_Witness ==
    /\ last.op = "add_book"
    /\ last.outcome = "ok"
    /\ Len(BOOKS) = 2
    /\ last.book = Some(BOOKS[2])
    /\ Len(SECTIONS) = 4
    /\ ~IsNone(SECTIONS[1].embedding)
    /\ Cardinality({SECTIONS[i].text : i \in 2..4}) = 3
    /\ \A i \in 2..4 : SECTIONS[i].book_id = BOOKS[2].id /\ IsNone(SECTIONS[i].embedding)

----------------------------------------------------------------------------
(* Book resolution runs (ResolveSpec): books of two titles, requests with  *)
(* every combination of book id and title hint.                            *)

ResolveAdds == [title : {Dune, Found}, sections : {<<>>, <<Rep("a", 50)>>}]

Hints ==
    {None, Some(<<>>), Some(<<"d", "u", "n", "e">>), Some(<<"U", "N">>), Some(<<"x">>)}

BookIds == {None} \cup {Some(i) : i \in 0..(MaxBooks + 1)}

ResolveAsks ==
    {QARequest(b, h, DefaultTopK, Rep("a", 5)) : b \in BookIds, h \in Hints}

ResolveNext ==
    \/ calls < MaxResolveCalls /\ \E req \in ResolveAdds : AddBook(req)
    \/ calls < MaxResolveCalls /\ \E req \in ResolveAsks, fault \in Faults :
            Retrieve(req, fault)

ResolveSpec == Init /\ [][ResolveNext]_vars

(* The last call was a retrieval that returned.                            *)
Answered == last.op = "retrieve" /\ last.outcome = "ok"

(* C8: with book_id set the resolved book is the registered book of that   *)
(* id, whatever the title hint; when no book has the id the result is      *)
(* (None, []).                                                             *)
C8_BookIdDecides ==
    (Answered /\ ~IsNone(last.req.book_id)) =>
        LET id == Get(last.req.book_id)
        IN  IF \E i \in 1..Len(BOOKS) : BOOKS[i].id = id
            THEN /\ ~IsNone(last.target)
                 /\ Get(last.target).id = id
                 /\ \E i \in 1..Len(BOOKS) : BOOKS[i] = Get(last.target)
            ELSE last.target = None /\ last.selected = <<>>

(* The id names the second book although the hint matches the first.       *)
C8_Witness ==
    /\ Answered
    /\ Len(BOOKS) = 2
    /\ BOOKS[1].title = Dune
    /\ BOOKS[2].title = Found
    /\ last.req.book_id = Some(2)
    /\ last.req.title_hint = Some(<<"d", "u", "n", "e">>)
    /\ last.target = Some(BOOKS[2])

(* The positions of the books whose title contains the hint, case ignored. *)
matching(hint) ==
    {i \in 1..Len(BOOKS) : Contains(Lower(BOOKS[i].title), Lower(hint))}

(* C9: with book_id unset and a title hint given the resolved book is the  *)
(* first registered book whose title contains the hint, case ignored; when *)
(* no title contains it the result is (None, []).                          *)
C9_FirstTitleMatch ==
    (Answered /\ IsNone(last.req.book_id) /\ ~IsNone(last.req.title_hint)) =>
        LET m == matching(Get(last.req.title_hint))
        IN  IF m = {}
            THEN last.target = None /\ last.selected = <<>>
            ELSE last.target = Some(BOOKS[CHOOSE i \in m : \A j \in m : i <= j])

(* An upper-case hint matches both titles and the first book is resolved;  *)
(* the titles differ from the hint in case.                                *)
C9_Witness ==
    /\ Answered
    /\ Len(BOOKS) = 2
    /\ BOOKS[1].title = Found
    /\ BOOKS[2].title = Dune
    /\ IsNone(last.req.book_id)
    /\ last.req.title_hint = Some(<<"U", "N">>)
    /\ last.target = Some(BOOKS[1])
    /\ Len(last.selected) = 1

(* C10: with neither book_id nor title_hint set the resolved book is the   *)
(* first registered book; on an empty registry every request returns       *)
(* (None, []).                                                             *)
C10_DefaultIsFirstBook ==
    last.op = "retrieve" =>
        /\ BOOKS = <<>> =>
            last.outcome = "ok" /\ last.target = None /\ last.selected = <<>>
        /\ (BOOKS # <<>> /\ last.outcome = "ok" /\ IsNone(last.req.book_id)
                /\ IsNone(last.req.title_hint)) =>
            last.target = Some(BOOKS[1])

C10_Witness ==
    /\ Answered
    /\ Len(BOOKS) = 2
    /\ BOOKS[1].title = Found
    /\ IsNone(last.req.book_id)
    /\ IsNone(last.req.title_hint)
    /\ last.target = Some(BOOKS[1])

(* The positions of the books a request can resolve to: those of its book *)
(* id when it names one, else those whose title contains its hint when it  *)
(* gives one, else all.                                                    *)
candidates(req) ==
    IF ~IsNone(req.book_id)
    THEN {i \in 1..Len(BOOKS) : BOOKS[i].id = Get(req.book_id)}
    ELSE IF ~IsNone(req.title_hint) /\ Get(req.title_hint) # <<>>
    THEN matching(Get(req.title_hint))
    ELSE 1..Len(BOOKS)

(* C11: the returned book is None exactly when no book could be resolved;  *)
(* when a book is resolved and none of its sections has an embedding the   *)
(* result is that book with an empty list, and the question was not passed *)
(* to the embedding model.                                                 *)
C11_NotFoundOutcomesDistinct ==
    Answered =>
        /\ IsNone(last.target) <=> candidates(last.req) = {}
        /\ IsNone(last.target) => last.selected = <<>>
        /\ ~IsNone(last.target) =>
            /\ \E i \in candidates(last.req) : last.target = Some(BOOKS[i])
            /\ embedded_of(Get(last.target).id) = {} =>
                    last.selected = <<>> /\ ~last.asked /\ last.encoded = 0

(* The second book, of no section, is returned with an empty list while    *)
(* the first book has an embedded section.                                 *)
C11_Witness ==
    /\ Answered
    /\ Len(BOOKS) = 2
    /\ last.target = Some(BOOKS[2])
    /\ get_sections_for_book(SECTIONS, BOOKS[2].id) = <<>>
    /\ embedded_of(BOOKS[1].id) # {}
    /\ last.selected = <<>>
    /\ ~last.asked

(* C18: a step that is not an accepted add-book request leaves the books,  *)
(* the id counters and the number and order of the sections as they were;  *)
(* a retrieval changes no id, book_id or text of a section, it changes     *)
(* embeddings only of sections of the book it resolves to, and it changes  *)
(* nothing and does not invoke the embedding model when it resolves to no  *)
(* book.                                                                   *)
C18_OnlyAddBookChangesRegistry ==
    [][/\ (calls' # calls /\ ~(last'.op = "add_book" /\ last'.outcome = "ok"))
            => /\ BOOKS' = BOOKS
               /\ next_book_id' = next_book_id
               /\ next_section_id' = next_section_id
               /\ Len(SECTIONS') = Len(SECTIONS)
       /\ (calls' # calls /\ last'.op = "retrieve")
            => LET c == candidates(last'.req)
               IN  /\ \A i \in 1..Len(SECTIONS) :
                        /\ SECTIONS'[i].id = SECTIONS[i].id
                        /\ SECTIONS'[i].book_id = SECTIONS[i].book_id
                        /\ SECTIONS'[i].text = SECTIONS[i].text
                        /\ SECTIONS'[i].embedding # SECTIONS[i].embedding
                            => /\ c # {}
                               /\ SECTIONS[i].book_id
                                    = BOOKS[CHOOSE m \in c : \A k \in c : m <= k].id
                   /\ c = {} => SECTIONS' = SECTIONS /\ encode_calls' = encode_calls]_vars

(* A retrieval for the second book set the embedding of its section; the   *)
(* section of the first book is still unset.                               *)
C18_Witness ==
    /\ last.op = "retrieve"
    /\ Len(BOOKS) = 2
    /\ last.target = Some(BOOKS[2])
    /\ last.encoded = 2
    /\ Len(SECTIONS) = 2
    /\ SECTIONS[1].book_id = 1 /\ IsNone(SECTIONS[1].embedding)
    /\ SECTIONS[2].book_id = 2 /\ ~IsNone(SECTIONS[2].embedding)
    /\ assigned = <<0, 1>>

----------------------------------------------------------------------------
(* Pipeline runs (PromptSpec): one book of sections around the limit of    *)
(* 600 characters; a retrieval, then the prompt built from its result,     *)
(* then the answer generated from the prompt.                              *)

PromptTexts ==
    {Rep("a", 50), Rep("b", MaxSectionChars), Rep("b", MaxSectionChars + 1),
     << <<"a", 400>>, <<"b", 300>> >>}

PromptAdds == [title : {Dune}, sections : SeqsUpTo(PromptTexts, MaxPromptSections)]

PromptAsks ==
    {QARequest(None, None, k, q) : k \in {1, DefaultTopK}, q \in {Rep("a", 5), Rep("b", 5)}}

(* What text2text_pipeline returns: a list of candidates.                  *)
Candidates ==
    {<<[generated_text |-> "x"]>>, <<[generated_text |-> "y"], [generated_text |-> "x"]>>}

PromptNext ==
    \/ calls < MaxPromptCalls /\ BOOKS = <<>> /\ \E req \in PromptAdds : AddBook(req)
    \/ calls < MaxPromptCalls /\ \E req \in PromptAsks, fault \in Faults :
            Retrieve(req, fault)
    \/ calls < MaxPromptCalls /\ BuildPrompt
    \/ calls < MaxPromptCalls /\ \E c \in Candidates, ok \in BOOLEAN :
            GenerateAnswer(c, ok)

PromptSpec == Init /\ [][PromptNext]_vars

(* The last call built a prompt.                                           *)
Built == last.op = "build_prompt"

(* The texts of the sections the prompt was built from.                    *)
built_texts == [j \in 1..Len(last.sections) |-> SECTIONS[last.sections[j]].text]

(* The number of characters a section of text t takes in the context.      *)
part_len(t) ==
    IF StrLen(t) > MaxSectionChars THEN MaxSectionChars + 3 ELSE StrLen(t)

(* The number of characters of the context before the part of section j.   *)
part_start(texts, j) ==
    SumSeq([i \in 1..(j - 1) |-> part_len(texts[i]) + StrLen(Separator)])

(* C14: in the context of the prompt the part of a section longer than 600 *)
(* characters is its first 600 characters followed by "..."; the part of a *)
(* section of at most 600 characters is its text, and what follows it is   *)
(* the separator or the end of the context, not the marker.                *)
C14_TruncatedAtSixHundred ==
    Built =>
        LET ctx == last.prompt.context
        IN  \A j \in 1..Len(built_texts) :
                LET t == built_texts[j]
                    n == StrLen(t)
                    o == part_start(built_texts, j)
                IN  /\ StrLen(ctx) >= o + part_len(t)
                    /\ \A i \in 1..Min2(n, MaxSectionChars) : CharAt(ctx, o + i) = CharAt(t, i)
                    /\ IF n > MaxSectionChars
                       THEN \A i \in 1..3 : CharAt(ctx, o + MaxSectionChars + i) = "."
                       ELSE \/ StrLen(ctx) = o + n
                            \/ CharAt(ctx, o + n + 1) = "\n"

(* Sections of 50, 600 and 601 characters are in one prompt.               *)
C14_Witness ==
    /\ Built
    /\ {StrLen(built_texts[j]) : j \in 1..Len(built_texts)}
            = {50, MaxSectionChars, MaxSectionChars + 1}
    /\ StrLen(last.prompt.context)
            = 50 + MaxSectionChars + (MaxSectionChars + 3) + 2 * StrLen(Separator)

(* C15: the sections a prompt is built from are those the retrieval        *)
(* returned, each once, in descending order of similarity to the question, *)
(* the first one a most similar embedded section of the book; the context  *)
(* is made of their parts in that order, each followed by the separator    *)
(* except the last, and of nothing else.                                   *)
C15_ContextInRankOrder ==
    Built =>
        LET sel == last.sections
            ctx == last.prompt.context
            n == Len(sel)
        IN  /\ \A j, k \in 1..n : j < k =>
                    sel[j] # sel[k] /\ ~SimLess(sim_of(sel[j]), sim_of(sel[k]))
            /\ embedded_of(Get(last.target).id) # {} => n >= 1
            /\ n >= 1 => \A v \in embedded_of(Get(last.target).id) :
                    ~SimLess(sim_of(sel[1]), sim_of(v))
            /\ StrLen(ctx) = IF n = 0 THEN 0
                             ELSE part_start(built_texts, n) + part_len(built_texts[n])
            /\ \A j \in 1..n :
                    LET t == built_texts[j]
                        o == part_start(built_texts, j)
                    IN  /\ \A i \in 1..Min2(StrLen(t), MaxSectionChars) :
                                CharAt(ctx, o + i) = CharAt(t, i)
                        /\ j < n => \A i \in 1..StrLen(Separator) :
                                CharAt(ctx, o + part_len(t) + i) = CharAt(Separator, i)

(* The question is closest to the second section of three: the prompt      *)
(* lists the second, the third and the first, of strictly decreasing       *)
(* similarity.                                                             *)
C15_Witness ==
    /\ Built
    /\ last.sections = <<2, 3, 1>>
    /\ SimLess(sim_of(3), sim_of(2))
    /\ SimLess(sim_of(1), sim_of(3))
    /\ CharAt(last.prompt.context, 1) = CharAt(SECTIONS[2].text, 1)
    /\ CharAt(SECTIONS[2].text, 1) # CharAt(SECTIONS[1].text, 1)

(* C20: a retrieval invokes the embedding model at most once for the       *)
(* sections of its book and at most once for the question, and when an     *)
(* invocation raises the retrieval fails without a result and without      *)
(* another invocation; generate_answer invokes the generative model once,  *)
(* fails without a result when it raises, and returns the text of the      *)
(* first candidate otherwise.                                              *)
C20_ModelErrorsNotRetried ==
    [][/\ (calls' # calls /\ last'.op = "retrieve")
            => LET for_question == IF last'.asked THEN 1 ELSE 0
                   for_sections == last'.encoded - for_question
               IN  /\ encode_calls' = encode_calls + last'.encoded
                   /\ for_sections \in {0, 1}
                   /\ (last'.fault = "sections" /\ for_sections = 1)
                        => last'.outcome = "error" /\ for_question = 0
                   /\ (last'.fault = "question" /\ for_question = 1)
                        => last'.outcome = "error"
                   /\ last'.outcome = "error"
                        => IsNone(last'.target) /\ last'.selected = <<>>
       /\ (calls' # calls /\ last'.op = "generate_answer")
            => /\ last'.generated = 1
               /\ ~last'.ok => last'.outcome = "error" /\ IsNone(last'.result)
               /\ last'.ok => /\ last'.outcome = "ok"
                              /\ last'.result = Some(last'.candidates[1].generated_text)]_vars

(* The generative model raised, after a retrieval that invoked the         *)
(* embedding model for the sections and for the question.                  *)
C20_Witness ==
    /\ last.op = "generate_answer"
    /\ ~last.ok
    /\ last.outcome = "error"
    /\ IsNone(last.result)
    /\ encode_calls = 2
    /\ calls = 4
    /\ last.prompt.context # <<>>

----------------------------------------------------------------------------
(* Concurrent runs (ConcSpec): one book is added, by an add_book that runs *)
(* to completion, and every thread serves one retrieval request; a step of *)
(* a thread is one access to the shared lists or one embedder.encode call. *)
(* Lines 65-66 are one step: when a thread reaches them every section of   *)
(* its book is embedded and embeddings no longer change.                   *)

Procs == 1..NumProcs

shared == <<BOOKS, next_book_id, next_section_id, calls, last, site>>

(* _compute_embeddings_for_book has returned: its locals are gone.         *)
after_compute(t) ==
    [t EXCEPT !.sections = <<>>, !.enc = <<>>, !.vectors = <<>>, !.i = 1, !.pc = "fetch"]

(* An exception leaves the call: no result, the locals are gone.           *)
raised(t) ==
    [t EXCEPT !.sections = <<>>, !.enc = <<>>, !.vectors = <<>>, !.i = 1,
              !.valid = <<>>, !.pc = "failed"]

(* lines 43-61: the request arrives and its book is chosen.                *)
Start(p, req) ==
    /\ thr[p].pc = "idle"
    /\ \E t \in {choose_target(list_books, req)} :
        thr' = [thr EXCEPT ![p] = [@ EXCEPT !.req = Some(req), !.target = t,
                    !.seq = Cardinality({q \in Procs :
                                thr[q].pc # "idle" /\ thr[q].target = t}) + 1,
                    !.pc = IF IsNone(t) THEN "done" ELSE "compute"]]
    /\ UNCHANGED <<shared, SECTIONS, encode_calls, assigned>>

(* line 22: the sections of the book are collected.                        *)
Collect(p) ==
    /\ thr[p].pc = "compute"
    /\ \E ss \in {get_sections_for_book(SECTIONS, Get(thr[p].target).id)} :
        thr' = [thr EXCEPT ![p] = [@ EXCEPT !.sections = ss, !.enc = <<>>, !.i = 1,
                    !.pc = IF ss = <<>> THEN "fetch" ELSE "scan"]]
    /\ UNCHANGED <<shared, SECTIONS, encode_calls, assigned>>

(* lines 23-25: one section is looked at and kept when it has no embedding.*)
Scan(p) ==
    /\ thr[p].pc = "scan"
    /\ LET t == thr[p]
           r == t.sections[t.i]
           e == IF needs_encoding(SECTIONS[r]) THEN Append(t.enc, r) ELSE t.enc
       IN  thr' = [thr EXCEPT ![p] =
                    IF t.i < Len(t.sections) THEN [@ EXCEPT !.enc = e, !.i = t.i + 1]
                    ELSE IF e = <<>> THEN after_compute(t)
                    ELSE [@ EXCEPT !.enc = e, !.sections = <<>>, !.i = 1, !.pc = "encode"]]
    /\ UNCHANGED <<shared, SECTIONS, encode_calls, assigned>>

(* lines 27-28: their texts are encoded, or the embedder raises.           *)
EncodeSections(p, ok) ==
    /\ thr[p].pc = "encode"
    /\ encode_calls' = encode_calls + 1
    /\ thr' = [thr EXCEPT ![p] =
                IF ok THEN [@ EXCEPT !.vectors = encode(texts_of(SECTIONS, thr[p].enc)),
                                     !.i = 1, !.pc = "assign"]
                ELSE raised(thr[p])]
    /\ UNCHANGED <<shared, SECTIONS, assigned>>

(* lines 29-30: one iteration of the loop over zip(to_encode, vectors).    *)
AssignOne(p) ==
    /\ thr[p].pc = "assign"
    /\ LET t == thr[p]
           n == Min2(Len(t.enc), Len(t.vectors))
       IN  /\ SECTIONS' = [SECTIONS EXCEPT ![t.enc[t.i]].embedding = Some(t.vectors[t.i])]
           /\ assigned' = [assigned EXCEPT ![t.enc[t.i]] = @ + 1]
           /\ thr' = [thr EXCEPT ![p] =
                        IF t.i >= n THEN after_compute(t) ELSE [@ EXCEPT !.i = t.i + 1]]
    /\ UNCHANGED <<shared, encode_calls>>

(* lines 65-68: the sections with an embedding are collected.              *)
Fetch(p) ==
    /\ thr[p].pc = "fetch"
    /\ \E v \in {valid_sections(SECTIONS, Get(thr[p].target).id)} :
        thr' = [thr EXCEPT ![p] = [@ EXCEPT !.valid = v,
                    !.pc = IF v = <<>> THEN "done" ELSE "rank"]]
    /\ UNCHANGED <<shared, SECTIONS, encode_calls, assigned>>

(* lines 70-77: the question is encoded, or the embedder raises, and the   *)
(* sections are ranked.                                                    *)
RankSections(p, ok) ==
    /\ thr[p].pc = "rank"
    /\ encode_calls' = encode_calls + 1
    /\ thr' = [thr EXCEPT ![p] =
                IF ok THEN [@ EXCEPT !.selected =
                                rank(SECTIONS, thr[p].valid, Get(thr[p].req).question,
                                     Get(thr[p].req).top_k),
                            !.valid = <<>>, !.pc = "done"]
                ELSE raised(thr[p])]
    /\ UNCHANGED <<shared, SECTIONS, assigned>>

ConcTexts == {Rep("a", 50), Rep("b", 700)}

ConcAdds == [title : {Dune}, sections : SeqsUpTo(ConcTexts, MaxSections)]

ConcAsks == {QARequest(None, None, DefaultTopK, Rep("a", 5))}

ConcNext ==
    \/ BOOKS = <<>> /\ \E req \in ConcAdds : AddBook(req)
    \/ \E p \in Procs, req \in ConcAsks : Start(p, req)
    \/ \E p \in Procs : Collect(p)
    \/ \E p \in Procs : Scan(p)
    \/ \E p \in Procs, ok \in BOOLEAN : EncodeSections(p, ok)
    \/ \E p \in Procs : AssignOne(p)
    \/ \E p \in Procs : Fetch(p)
    \/ \E p \in Procs, ok \in BOOLEAN : RankSections(p, ok)

ConcSpec == Init /\ [][ConcNext]_vars


(* No request is in flight.                                                *)
Quiet == \A p \in Procs : thr[p].pc \in {"idle", "done", "failed"}

(* The threads whose request resolved to the book of section i.            *)
requests_for(t, i) ==
    {p \in Procs : ~IsNone(t[p].target) /\ Get(t[p].target).id = SECTIONS[i].book_id}

(* C3: however the embedding computations of concurrent requests for one   *)
(* book interleave, a section never holds a vector computed from another   *)
(* text than its own, and once no request is in flight every section of a  *)
(* book for which a request has returned holds the embedding of its text.  *)
C3_RaceNotCorrupting ==
    /\ \A i \in 1..Len(SECTIONS) :
        ~IsNone(SECTIONS[i].embedding) => SECTIONS[i].embedding = Some(Embed(SECTIONS[i].text))
    /\ Quiet =>
        \A i \in 1..Len(SECTIONS) :
            (\E p \in requests_for(thr, i) : thr[p].pc = "done")
                => SECTIONS[i].embedding = Some(Embed(SECTIONS[i].text))

(* Two requests have both assigned both sections of a book of two texts.   *)
C3_Witness ==
    /\ Quiet
    /\ Len(SECTIONS) = 2
    /\ SECTIONS[1].text # SECTIONS[2].text
    /\ \A i \in 1..2 :
        assigned[i] = 2 /\ SECTIONS[i].embedding = Some(Embed(SECTIONS[i].text))
    /\ \A p \in 1..2 : thr[p].pc = "done" /\ Len(thr[p].selected) = 2

(* C5 as stated: an embedding starts unset, is assigned at most one time,  *)
(* by the first request that resolves to its book, and is never reassigned *)
(* or reset.                                                               *)
C5_AssignedExactlyOnce ==
    [][\A i \in 1..Len(SECTIONS') :
        IF i > Len(SECTIONS) THEN IsNone(SECTIONS'[i].embedding)
        ELSE /\ assigned'[i] <= 1
             /\ ~IsNone(SECTIONS[i].embedding) =>
                    /\ SECTIONS'[i].embedding = SECTIONS[i].embedding
                    /\ assigned'[i] = assigned[i]
             /\ assigned'[i] # assigned[i] =>
                    \E p \in requests_for(thr, i) :
                        thr[p].pc = "assign" /\ thr'[p] # thr[p] /\ thr[p].seq = 1]_vars

(* C5 as amended: an embedding starts unset; it is assigned only by        *)
(* requests that resolved to its book and found it unset, at most once by  *)
(* each, always the embedding of its own text; once set its value never    *)
(* changes and is never reset.                                             *)
C5_SetOnceAssignedPerRequest ==
    [][/\ \A i \in 1..Len(SECTIONS') :
            IF i > Len(SECTIONS)
            THEN IsNone(SECTIONS'[i].embedding) /\ assigned'[i] = 0
            ELSE /\ ~IsNone(SECTIONS[i].embedding) =>
                        SECTIONS'[i].embedding = SECTIONS[i].embedding
                 /\ assigned'[i] # assigned[i] =>
                        /\ assigned'[i] = assigned[i] + 1
                        /\ SECTIONS'[i].embedding = Some(Embed(SECTIONS[i].text))
                        /\ \E p \in requests_for(thr, i) :
                            thr[p].pc = "assign" /\ thr'[p] # thr[p]
                 /\ assigned'[i] <= Cardinality(requests_for(thr', i))
       /\ \A p \in Procs :
            (thr[p].pc = "scan" /\ Len(thr'[p].enc) > Len(thr[p].enc)) =>
                IsNone(SECTIONS[thr'[p].enc[Len(thr'[p].enc)]].embedding)
      ]_vars

(* A section was assigned by two requests and holds the embedding of its   *)
(* text.                                                                   *)
C5_Witness ==
    \E i \in 1..Len(SECTIONS) :
        /\ assigned[i] = 2
        /\ SECTIONS[i].embedding = Some(Embed(SECTIONS[i].text))
        /\ Cardinality(requests_for(thr, i)) = 2

----------------------------------------------------------------------------
(* Favourites, one request at a time (FavSpec).  A handler loads the file, *)
(* updates the mapping and saves it; write: what happens at lines 106-110, *)
(* where an error is ignored: "ok", "open_failed" (the file is untouched)  *)
(* or "dump_failed" (the file was truncated and is left incomplete).       *)

Writes == {"ok", "open_failed", "dump_failed"}

written(file, data, write) ==
    IF write = "ok" THEN dump(data)
    ELSE IF write = "open_failed" THEN file
    ELSE Truncated

logged(log, op, write) ==
    [log EXCEPT !.ops[op.user] =
                    [b \in FavBooks |->
                        IF op.kind = "clear" THEN "clear"
                        ELSE IF b = op.book THEN op.kind
                        ELSE log.ops[op.user][b]],
                !.write_failed = log.write_failed \/ write # "ok"]

Favourite(op, write) ==
    /\ calls' = calls + 1
    /\ fav_file' = written(fav_file, updated(_load_favorites(fav_file), op), write)
    /\ fav_log' = logged(fav_log, op, write)
    /\ last' = [op |-> "favourite", req |-> op, write |-> write]
    /\ UNCHANGED <<registry, encode_calls, assigned, thr, adders, fav_lock, fav_req,
                   CHAT_STORE, catalogue>>

(* router.add_favorite(user_id, book_id)                                   *)
AddFavorite(uid, bid, write) == Favourite(FavOp("add", uid, bid), write)

(* router.remove_favorite(user_id, book_id)                                *)
RemoveFavorite(uid, bid, write) == Favourite(FavOp("remove", uid, bid), write)

(* router.clear_favorites(user_id)                                         *)
ClearFavorites(uid, write) == Favourite(FavOp("clear", uid, "b1"), write)

JsonList(ids) == [is_list |-> TRUE, items |-> ids]

(* Files without duplicates: none, one that is not a JSON object, an empty *)
(* mapping, lists of one and two ids, and a value that is not a list.      *)
FavFiles ==
    { NoFile,
      Truncated,
      dump(EmptyDict),
      dump([u \in {"u1"} |-> <<"b1">>]),
      dump([u \in Users |-> IF u = "u1" THEN <<"b1", "b2">> ELSE <<"b2">>]),
      [exists |-> TRUE, complete |-> TRUE,
       data |-> [u \in Users |-> IF u = "u1" THEN JsonList(<<"b2">>)
                                  ELSE [is_list |-> FALSE, items |-> <<>>]]] }

FavInit ==
    /\ ProcessStarted
    /\ fav_file \in FavFiles
    /\ fav_log = log_of(fav_file)

FavNext ==
    \/ calls < MaxFavCalls /\ \E u \in Users, b \in FavBooks, w \in Writes :
            AddFavorite(u, b, w)
    \/ calls < MaxFavCalls /\ \E u \in Users, b \in FavBooks, w \in Writes :
            RemoveFavorite(u, b, w)
    \/ calls < MaxFavCalls /\ \E u \in Users, w \in Writes : ClearFavorites(u, w)

FavSpec == FavInit /\ [][FavNext]_vars

no_duplicates(ids) == \A i, j \in DOMAIN ids : ids[i] = ids[j] => i = j

(* C30: as long as every write has succeeded, after a favourites operation *)
(* no user's list holds a book id twice, a book id is in a user's list     *)
(* exactly when the last operation of that user on it was an add (not      *)
(* followed by a clear), and the lists of the other users are as they were *)
(* before the operation.                                                   *)
C30_FavouritesFollowLastOperation ==
    [][(last'.op = "favourite" /\ ~fav_log'.write_failed)
        => /\ \A u \in Users :
                /\ no_duplicates(favourites_of(fav_file', u))
                /\ \A b \in FavBooks :
                        In(favourites_of(fav_file', u), b)
                            <=> fav_log'.ops[u][b] = "add"
           /\ \A u \in Users \ {last'.req.user} :
                favourites_of(fav_file', u) = favourites_of(fav_file, u)]_vars

(* After three operations with successful writes, the last one a removal   *)
(* by u1 of b1, u1 is left with b2 alone while u2 still has b2 and has had *)
(* b1 added and removed again or cleared.                                  *)
C30_Witness ==
    /\ calls = 3
    /\ last.op = "favourite"
    /\ last.req = FavOp("remove", "u1", "b1")
    /\ ~fav_log.write_failed
    /\ fav_log.initial = dump([u \in Users |-> IF u = "u1" THEN <<"b1", "b2">> ELSE <<"b2">>])
    /\ favourites_of(fav_file, "u1") = <<"b2">>
    /\ favourites_of(fav_file, "u2") = <<"b2">>
    /\ fav_log.ops["u2"]["b1"] = "remove"

----------------------------------------------------------------------------
(* Favourites requests in flight together (FavConcSpec).  The handlers are *)
(* plain functions, which the framework runs in worker threads.  A step of *)
(* a request is one access to the file or to the lock; every write         *)
(* succeeds.                                                               *)

FavProcs == 1..NumFavRequests

(* lines 255-261 (277-283, 297-298): the file is read, no lock is taken    *)
(* (_load_favorites, lines 80-92), and the loaded mapping is updated.      *)
FavLoad(p, op) ==
    /\ fav_req[p].pc = "idle"
    /\ fav_req' = [fav_req EXCEPT ![p] =
                    [pc |-> "save", op |-> Some(op),
                     data |-> updated(_load_favorites(fav_file), op)]]
    /\ UNCHANGED <<registry, encode_calls, assigned, calls, last, thr, adders,
                   fav_file, fav_lock, fav_log, CHAT_STORE, catalogue>>

(* lines 105-107: the lock is acquired and the file is opened for writing, *)
(* which empties it.                                                       *)
FavOpen(p) ==
    /\ fav_req[p].pc = "save"
    /\ IsNone(fav_lock)
    /\ fav_lock' = Some(p)
    /\ fav_file' = Truncated
    /\ fav_req' = [fav_req EXCEPT ![p].pc = "dump"]
    /\ UNCHANGED <<registry, encode_calls, assigned, calls, last, thr, adders,
                   fav_log, CHAT_STORE, catalogue>>

(* line 108 and the end of the with blocks: the mapping is written, the    *)
(* file is closed and the lock is released.                                *)
FavDump(p) ==
    /\ fav_req[p].pc = "dump"
    /\ fav_lock = Some(p)
    /\ fav_file' = dump(fav_req[p].data)
    /\ fav_lock' = None
    /\ fav_req' = [fav_req EXCEPT ![p].pc = "done"]
    /\ UNCHANGED <<registry, encode_calls, assigned, calls, last, thr, adders,
                   fav_log, CHAT_STORE, catalogue>>

FavOps ==
    {FavOp("add", "u1", "b1"), FavOp("add", "u1", "b2"), FavOp("add", "u2", "b2"),
     FavOp("remove", "u1", "b1"), FavOp("clear", "u1", "b1")}

FavConcNext ==
    \/ \E p \in FavProcs, op \in FavOps : FavLoad(p, op)
    \/ \E p \in FavProcs : FavOpen(p)
    \/ \E p \in FavProcs : FavDump(p)

FavConcSpec == FavInit /\ [][FavConcNext]_vars

(* The orders in which the requests can be served one after the other.     *)
FavOrders == {o \in [FavProcs -> FavProcs] : \A p, q \in FavProcs : o[p] = o[q] => p = q}

RECURSIVE served(_, _, _)
(* The mapping after the requests o[n], ..., o[NumFavRequests] were served *)
(* one at a time, starting from data.                                      *)
served(o, n, data) ==
    IF n > NumFavRequests THEN data
    ELSE served(o, n + 1, updated(data, Get(fav_req[o[n]].op)))

(* C21: when the concurrent favourites requests have all been answered,    *)
(* the stored mapping reflects each of them: every user's list is what     *)
(* serving the requests one after the other, in some order, leaves.        *)
C21_NoFavouriteUpdateLost ==
    (\A p \in FavProcs : fav_req[p].pc = "done")
        => \E o \in FavOrders : \A u \in Users :
                favourites_of(fav_file, u)
                    = get(served(o, 1, _load_favorites(fav_log.initial)), u, <<>>)

----------------------------------------------------------------------------
(* The catalogue, one request at a time (CatalogSpec).                     *)

(* The first result of a call is kept, per cache key and per work id;      *)
(* books: the first book a work lookup returned.                           *)
first_kept(log, key, result) == IF key \in DOMAIN log THEN log ELSE put(log, key, result)

(* GET /api/catalog/books: router.list_books(...)                          *)
ListBooks(req, http_ok) ==
    \E r \in {list_books_page(search_cache, req, http_ok)} :
        /\ calls' = calls + 1
        /\ search_cache' = r.cache
        /\ http_requests' = http_requests + r.requests
        /\ cat_log' = [cat_log EXCEPT
                        !.searched = first_kept(cat_log.searched, cache_key(req), r.found)]
        /\ last' = [op |-> "list_books", req |-> req, found |-> r.found,
                    source |-> r.source, requests |-> r.requests, status |-> 200,
                    result |-> r.result]
        /\ UNCHANGED <<registry, encode_calls, assigned, thr, adders, favourites,
                       CHAT_STORE, work_cache, author_cache>>

(* GET /api/catalog/books/{book_id}: router.get_book(book_id)              *)
GetBook(book_id, work_ok, author_ok) ==
    \E r \in {get_book_openlibrary(work_cache, author_cache, book_id, work_ok, author_ok)} :
      \E book \in {IF IsNone(r.found) THEN local_book(SampleBooks, book_id) ELSE r.found} :
        /\ calls' = calls + 1
        /\ work_cache' = r.works
        /\ author_cache' = r.authors
        /\ http_requests' = http_requests + r.requests
        /\ cat_log' = IF book_id = <<>> THEN cat_log
                      ELSE [cat_log EXCEPT
                              !.looked_up = first_kept(cat_log.looked_up,
                                                       work_id_of(book_id), r.found),
                              !.books = IF IsNone(r.found) THEN cat_log.books
                                        ELSE first_kept(cat_log.books, work_id_of(book_id),
                                                        Get(r.found))]
        /\ last' = [op |-> "get_book", req |-> book_id, found |-> r.found,
                    source |-> IF IsNone(r.found) THEN "local" ELSE "provider",
                    requests |-> r.requests,
                    status |-> IF IsNone(book) THEN 404 ELSE 200,
                    result |-> book]
        /\ UNCHANGED <<registry, encode_calls, assigned, thr, adders, favourites,
                       CHAT_STORE, search_cache>>

BooksQuery(q, category, tag, language, sort, page) ==
    [q |-> q, category |-> category, tag |-> tag, language |-> language, sort |-> sort,
     page |-> page, page_size |-> MinPageSize]

SortFields == {"relevance", "title", "author", "year", "rating"}

CatalogAsks ==
    {BooksQuery(Some(<<"a">>), None, None, None, sort, 1) : sort \in SortFields}
    \cup {BooksQuery(Some(<<"a">>), Some(<<"S", "f">>), None, None, sort, 1) :
            sort \in {"relevance", "title"}}
    \cup {BooksQuery(Some(<<"a">>), None, Some(Sf), Some(En), "year", 1),
          BooksQuery(Some(<<"a">>), None, None, None, "relevance", 2),
          BooksQuery(None, None, None, None, "relevance", 1),
          BooksQuery(None, None, None, None, "rating", 1),
          BooksQuery(Some(<<"B">>), None, None, Some(Fr), "title", 1)}

CatalogIds == {<<>>, <<"W1">>, <<"works", "W1">>, <<"W3">>, <<"L1">>, <<"X">>}

CatalogNext ==
    \/ /\ calls < MaxCatalogCalls
       /\ \E req \in CatalogAsks, http_ok \in BOOLEAN :
            /\ cache_key(req) \in DOMAIN search_cache => http_ok
            /\ ListBooks(req, http_ok)
    \/ /\ calls < MaxCatalogCalls
       /\ \E book_id \in CatalogIds, work_ok \in BOOLEAN, author_ok \in BOOLEAN :
            /\ ~work_ok => author_ok
            /\ GetBook(book_id, work_ok, author_ok)

CatalogSpec == Init /\ [][CatalogNext]_vars

(* The same elements as often, whatever their order.                       *)
same_books(a, b) ==
    /\ Len(a) = Len(b)
    /\ \A i \in DOMAIN a :
        Cardinality({j \in DOMAIN a : a[j] = a[i]}) = Cardinality({j \in DOMAIN b : b[j] = a[i]})

C27_RelevanceKeepsProviderOrder ==
    (last.op = "list_books" /\ last.req.sort = "relevance" /\ last.source = "provider")
        => last.result = paginated(filtered(OpenLibraryDocs(last.req), last.req), last.req)

----------------------------------------------------------------------------
(* The chat endpoints, one request at a time (ChatSpec).                   *)

Served(op, req, r) ==
    /\ calls' = calls + 1
    /\ CHAT_STORE' = r.store
    /\ last' = [op |-> op, req |-> req, status |-> r.status, body |-> r.body]
    /\ UNCHANGED <<registry, encode_calls, assigned, thr, adders, favourites, catalogue>>

(* POST /session: main.create_session(); token: the new uuid.              *)
CreateSession(token) ==
    /\ token \notin DOMAIN CHAT_STORE
    /\ Served("session", Payload(Some(token), None, None),
              Response(200, put(CHAT_STORE, token, EmptyDict), <<>>))

(* GET /history?work_id=..&token=..                                        *)
GetHistory(work_id, token) ==
    Served("history", Payload(Some(token), Some(work_id), None),
           get_history(CHAT_STORE, work_id, token))

(* POST /reset                                                             *)
ResetHistory(payload) == Served("reset", payload, reset_history(CHAT_STORE, payload))

(* POST /chat                                                              *)
Chat(payload, fetched) ==
    Served("chat", payload, chat_with_book(CHAT_STORE, payload, fetched))

Tokens == {"t1", "t2"}

WorkIds == {"w1", "w2"}

ChatPayloads ==
    {Payload(Some(t), Some(w), Some("hi")) : t \in Tokens, w \in WorkIds}
    \cup {Payload(None, Some("w1"), Some("hi")), Payload(Some(""), Some("w1"), Some("hi")),
          Payload(Some("t1"), Some("w1"), None), Payload(Some("t2"), None, Some("hi")),
          Payload(Some("t2"), Some("w1"), Some(""))}

ResetPayloads ==
    {Payload(Some(t), Some("w1"), None) : t \in Tokens}
    \cup {Payload(None, Some("w1"), None), Payload(Some("t1"), Some("w2"), None),
          Payload(Some("t1"), None, None), Payload(Some("t2"), Some(""), None)}

ChatNext ==
    \/ calls < MaxChatCalls /\ \E t \in Tokens : CreateSession(t)
    \/ calls < MaxChatCalls /\ \E t \in Tokens \cup {""}, w \in {"w1"} : GetHistory(w, t)
    \/ calls < MaxChatCalls /\ \E payload \in ResetPayloads : ResetHistory(payload)
    \/ calls < MaxChatCalls /\ \E payload \in ChatPayloads, fetched \in BOOLEAN :
            Chat(payload, fetched)

ChatSpec == Init /\ [][ChatNext]_vars

(* A request of one of the three endpoints that take a token is answered.  *)
TokenRequest == last'.op \in {"history", "reset", "chat"}

(* The histories of the tokens other than `token` are as they were.        *)
others_kept(token) ==
    \A t \in DOMAIN CHAT_STORE \ {token} :
        t \in DOMAIN CHAT_STORE' /\ CHAT_STORE'[t] = CHAT_STORE[t]

(* C23 as stated: a request with a non-empty token is not answered 401 and *)
(* leaves a session for the token, an empty one when the token was unknown *)
(* and the request stored no message, and leaves the histories of the      *)
(* other tokens alone; a request without a token is answered 401.          *)
C23_UnknownTokenGetsSession ==
    [][TokenRequest =>
        IF falsy(last'.req.token) THEN last'.status = 401
        ELSE LET token == Get(last'.req.token)
             IN  /\ last'.status # 401
                 /\ token \in DOMAIN CHAT_STORE'
                 /\ (token \notin DOMAIN CHAT_STORE /\ last'.op # "chat")
                        => \A w \in DOMAIN CHAT_STORE'[token] : CHAT_STORE'[token][w] = <<>>
                 /\ others_kept(token)]_vars

(* C23, amended: as stated, but for /reset without a work_id, which is     *)
(* answered 400 before the session is created and leaves the store as it   *)
(* was.                                                                    *)
C23_UnknownTokenNeverUnauthorized ==
    [][TokenRequest =>
        IF falsy(last'.req.token) THEN last'.status = 401
        ELSE LET token == Get(last'.req.token)
             IN  /\ last'.status # 401
                 /\ others_kept(token)
                 /\ IF last'.op = "reset" /\ falsy(last'.req.work_id)
                    THEN last'.status = 400 /\ CHAT_STORE' = CHAT_STORE
                    ELSE /\ token \in DOMAIN CHAT_STORE'
                         /\ (token \notin DOMAIN CHAT_STORE /\ last'.status = 400)
                                => CHAT_STORE'[token] = EmptyDict
                         /\ (token \notin DOMAIN CHAT_STORE /\ last'.op = "history")
                                => CHAT_STORE'[token] = EmptyDict]_vars

(* t1 has a history for w1; /history with the unknown token t2 has just    *)
(* been answered 200 with no messages and t2 has an empty session.         *)
C23_Witness ==
    /\ last.op = "history"
    /\ last.req.token = Some("t2")
    /\ last.status = 200
    /\ last.body = <<>>
    /\ DOMAIN CHAT_STORE = {"t1", "t2"}
    /\ CHAT_STORE["t2"] = EmptyDict
    /\ "w1" \in DOMAIN CHAT_STORE["t1"]
    /\ Len(CHAT_STORE["t1"]["w1"]) = 2

(* C28: every stored history alternates user and assistant messages,       *)
(* starting with a user message and ending with an assistant message.      *)
C28_HistoriesAlternate ==
    \A t \in DOMAIN CHAT_STORE : \A w \in DOMAIN CHAT_STORE[t] :
        LET h == CHAT_STORE[t][w]
        IN  /\ Len(h) % 2 = 0
            /\ \A i \in DOMAIN h : h[i].role = IF i % 2 = 1 THEN "user" ELSE "assistant"

(* C29: a /chat, /reset or /history request that is answered 401 or 400    *)
(* leaves the chat store as it was.                                        *)
C29_RejectedRequestsStoreNothing ==
    [][(TokenRequest /\ last'.status \in {400, 401}) => CHAT_STORE' = CHAT_STORE]_vars

----------------------------------------------------------------------------
(* add_book calls in flight together (AddSpec).  The registry has no lock. *)
(* A step of a call is one access to BOOKS, SECTIONS or a counter; a       *)
(* `+= 1` is a read of the counter followed by a write.                    *)

Adders == 1..NumAdders

elsewhere == <<encode_calls, calls, last, thr, favourites, CHAT_STORE, catalogue>>

(* lines 15-29: the lengths are summed, the request is rejected or the     *)
(* book is built with the value _next_book_id has now.                     *)
BuildBook(a, req) ==
    /\ adders[a].pc = "idle"
    /\ adders' = [adders EXCEPT ![a] =
                    IF too_long(req.sections)
                    THEN [@ EXCEPT !.pc = "ValueError", !.req = Some(req)]
                    ELSE [@ EXCEPT !.pc = "append", !.req = Some(req),
                                   !.book_id = next_book_id]]
    /\ UNCHANGED <<registry, assigned, elsewhere>>

(* line 30: BOOKS.append(book)                                             *)
AppendBook(a) ==
    /\ adders[a].pc = "append"
    /\ BOOKS' = Append(BOOKS, NewBook(Get(adders[a].req), adders[a].book_id))
    /\ adders' = [adders EXCEPT ![a].pc =
                    IF Get(adders[a].req).sections = <<>> THEN "advance" ELSE "section"]
    /\ UNCHANGED <<SECTIONS, next_book_id, next_section_id, assigned, elsewhere>>

(* lines 33-40: the section the loop is at is appended, with the value     *)
(* _next_section_id has now.                                               *)
AppendSection(a) ==
    /\ adders[a].pc = "section"
    /\ SECTIONS' = Append(SECTIONS,
                          [id |-> next_section_id, book_id |-> adders[a].book_id,
                           text |-> Get(adders[a].req).sections[adders[a].i],
                           embedding |-> None])
    /\ assigned' = Append(assigned, 0)
    /\ adders' = [adders EXCEPT ![a].pc = "count"]
    /\ UNCHANGED <<BOOKS, next_book_id, next_section_id, elsewhere>>

(* line 41, _next_section_id += 1: the counter is read.                    *)
ReadSectionId(a) ==
    /\ adders[a].pc = "count"
    /\ adders' = [adders EXCEPT ![a].tmp = next_section_id, ![a].pc = "counted"]
    /\ UNCHANGED <<registry, assigned, elsewhere>>

(* line 41, _next_section_id += 1: the counter is written; the loop goes   *)
(* on or ends.                                                             *)
WriteSectionId(a) ==
    /\ adders[a].pc = "counted"
    /\ next_section_id' = adders[a].tmp + 1
    /\ adders' = [adders EXCEPT ![a].i = adders[a].i + 1,
                                ![a].pc = IF adders[a].i < Len(Get(adders[a].req).sections)
                                          THEN "section" ELSE "advance"]
    /\ UNCHANGED <<BOOKS, SECTIONS, next_book_id, assigned, elsewhere>>

(* line 43, _next_book_id += 1: the counter is read.                       *)
ReadBookId(a) ==
    /\ adders[a].pc = "advance"
    /\ adders' = [adders EXCEPT ![a].tmp = next_book_id, ![a].pc = "advanced"]
    /\ UNCHANGED <<registry, assigned, elsewhere>>

(* line 43, _next_book_id += 1: the counter is written; line 44.           *)
WriteBookId(a) ==
    /\ adders[a].pc = "advanced"
    /\ next_book_id' = advance(adders[a].tmp)
    /\ adders' = [adders EXCEPT ![a].pc = "done"]
    /\ UNCHANGED <<BOOKS, SECTIONS, next_section_id, assigned, elsewhere>>

AddTexts == {Rep("a", 50), Rep("b", 700)}

AddAdds ==
    [title : {Dune}, sections : SeqsUpTo(AddTexts, MaxAddSections)]
    \cup {[title |-> Found, sections |-> <<Rep("c", 10000), Rep("z", 10001)>>]}

AddNext ==
    \/ \E a \in Adders, req \in AddAdds : BuildBook(a, req)
    \/ \E a \in Adders : AppendBook(a)
    \/ \E a \in Adders : AppendSection(a)
    \/ \E a \in Adders : ReadSectionId(a)
    \/ \E a \in Adders : WriteSectionId(a)
    \/ \E a \in Adders : ReadBookId(a)
    \/ \E a \in Adders : WriteBookId(a)

AddSpec == Init /\ [][AddNext]_vars

(* C24: no two books have one id, no two sections have one id, and the     *)
(* sections of the book an add_book call has returned are the sections its *)
(* request supplied.                                                       *)
C24_IdsUniqueUnderConcurrentAdds ==
    /\ \A i, j \in DOMAIN BOOKS : BOOKS[i].id = BOOKS[j].id => i = j
    /\ \A i, j \in DOMAIN SECTIONS : SECTIONS[i].id = SECTIONS[j].id => i = j
    /\ \A a \in Adders :
        adders[a].pc = "done"
            => texts_of(SECTIONS, get_sections_for_book(SECTIONS, adders[a].book_id))
                    = Get(adders[a].req).sections

----------------------------------------------------------------------------
(* A retrieval in flight together with the add_book call that creates its  *)
(* book (PartialSpec): the steps of call 1 of add_book and of request      *)
(* thread 1.                                                               *)

PartialAdds == [title : {Dune}, sections : SeqsUpTo(AddTexts, MaxAddSections)]

PartialNext ==
    \/ \E req \in PartialAdds : BuildBook(1, req)
    \/ AppendBook(1)
    \/ AppendSection(1)
    \/ ReadSectionId(1)
    \/ WriteSectionId(1)
    \/ ReadBookId(1)
    \/ WriteBookId(1)
    \/ \E req \in ConcAsks : Start(1, req)
    \/ Collect(1)
    \/ Scan(1)
    \/ \E ok \in BOOLEAN : EncodeSections(1, ok)
    \/ AssignOne(1)
    \/ Fetch(1)
    \/ \E ok \in BOOLEAN : RankSections(1, ok)

PartialSpec == Init /\ [][PartialNext]_vars

(* C25: a retrieval that resolved the book and returned has ranked all the *)
(* sections supplied with the book (the request asks for at least as many  *)
(* sections as a book has).                                                *)
C25_NoPartialBookObserved ==
    (thr[1].pc = "done" /\ ~IsNone(thr[1].target))
        => same_books(texts_of(SECTIONS, thr[1].selected), Get(adders[1].req).sections)

----------------------------------------------------------------------------
(* The sections a retrieval returns (Spec).                                *)

(* C26: every section returned by retrieve_relevant_sections is a section  *)
(* of the returned book, has its embedding set and is returned once.       *)
C26_ReturnedSectionsOfTheBook ==
    (last.op = "retrieve" /\ last.outcome = "ok" /\ ~IsNone(last.target))
        => \A i \in DOMAIN last.selected :
            /\ last.selected[i] \in DOMAIN SECTIONS
            /\ SECTIONS[last.selected[i]].book_id = Get(last.target).id
            /\ ~IsNone(SECTIONS[last.selected[i]].embedding)
            /\ \A j \in DOMAIN last.selected :
                SECTIONS[last.selected[j]].id = SECTIONS[last.selected[i]].id => i = j

(* Two books of two sections each; the sections of the first were embedded *)
(* by an earlier retrieval and the retrieval for book 2 has just returned  *)
(* two sections.                                                           *)
C26_Witness ==
    /\ Len(BOOKS) = 2
    /\ Len(SECTIONS) = 4
    /\ \A i \in DOMAIN SECTIONS : ~IsNone(SECTIONS[i].embedding)
    /\ last.op = "retrieve"
    /\ last.outcome = "ok"
    /\ last.target = Some(BOOKS[2])
    /\ Len(last.selected) = 2

====
